---- MODULE Spec2Model ----
(***************************************************************************)
(* Credential pool (backend/pool.py) and provider adapter                  *)
(* (backend/providers.py): token buckets, circuit breakers, weighted       *)
(* rotation under the pool lock, and the chat retry loop.                  *)
(*                                                                         *)
(* Time is counted in whole seconds.  Token stocks and refill rates are    *)
(* fixed-point numbers with TokenScale units per token, so a bucket can    *)
(* hold a fraction of a token as the float fields of the source do.        *)
(***************************************************************************)
EXTENDS Integers, Sequences, FiniteSets, TLC

\* ------------------------------------------------------------------ bounds
NumCallers == 2
MaxTime == 5
MaxCalls == 1
MaxLatency == 1
MaxPoolOps == 4
MaxCap == 2
TokenScale == 2
MaxAcquires == 8
MaxScenarioCalls == 2
MaxLoadCalls == 2

Callers == 1..NumCallers

\* Optional[APIKey]: a key is named by its position in the pool's list
None == 0

\* Optional[float]: Nothing is Python's None, Some(x) a given number
Nothing == <<>>
Some(x) == <<x>>
\* Python truthiness of an Optional[float]: None and 0 are falsy
Truthy(o) == o # Nothing /\ o[1] # 0

Min(a, b) == IF a <= b THEN a ELSE b

\* ------------------------------------------------------------ TokenBucket
\* A bucket is [capacity, refill_rate, tokens, last_refill_ts]; capacity is in
\* tokens, tokens and refill_rate are in 1/TokenScale tokens (per second).
TokenBucket(capacity, refill_rate, tokens, ts) ==
    [capacity |-> capacity, refill_rate |-> refill_rate,
     tokens |-> tokens, last_refill_ts |-> ts]

\* a refill that is not capped at the capacity
Refilled_nocap(b, t) == b.tokens + (t - b.last_refill_ts) * b.refill_rate

\* self.tokens after the refill of try_consume at time t
Refilled(b, t) ==
    Min(b.capacity * TokenScale, b.tokens + (t - b.last_refill_ts) * b.refill_rate)

\* a try_consume that takes what is there when the stock is short
try_consume_partial(b, amount, t) ==
    LET tk == Refilled(b, t)
    IN  IF tk >= amount
        THEN [ok |-> TRUE, bucket |-> [b EXCEPT !.tokens = tk - amount, !.last_refill_ts = t]]
        ELSE [ok |-> FALSE, bucket |-> [b EXCEPT !.tokens = 0, !.last_refill_ts = t]]

\* a try_consume that returns True without taking the tokens
try_consume_nodebit(b, amount, t) ==
    LET tk == Refilled(b, t)
    IN  [ok |-> tk >= amount, bucket |-> [b EXCEPT !.tokens = tk, !.last_refill_ts = t]]

try_consume(b, amount, t) ==
    LET tk == Refilled(b, t)
    IN  IF tk >= amount
        THEN [ok |-> TRUE, bucket |-> [b EXCEPT !.tokens = tk - amount, !.last_refill_ts = t]]
        ELSE [ok |-> FALSE, bucket |-> [b EXCEPT !.tokens = tk, !.last_refill_ts = t]]

\* A wait is the quotient num/den of the source's float; den = 0 stands for
\* float("inf").
Wait(num, den) == [num |-> num, den |-> den]

time_to_avail(b, amount) ==
    IF b.tokens >= amount THEN Wait(0, 1)
    ELSE IF b.refill_rate > 0 THEN Wait(amount - b.tokens, b.refill_rate)
    ELSE Wait(1, 0)

\* a <= b in place of a < b
WaitLessEq(a, b) ==
    IF b.den = 0 THEN TRUE
    ELSE IF a.den = 0 THEN FALSE
    ELSE a.num * b.den <= b.num * a.den

\* the float comparison  a < b  (inf < inf is false)
WaitLess(a, b) ==
    IF a.den = 0 THEN FALSE
    ELSE IF b.den = 0 THEN TRUE
    ELSE a.num * b.den < b.num * a.den

\* --------------------------------------------------------- CircuitBreaker
DefaultCooldown == 1
DefaultThreshold == 3
DefaultMinCooldown == 5

CircuitBreaker ==
    [failure_count |-> 0, last_failure_ts |-> 0, open_until |-> 0,
     cooldown_seconds |-> DefaultCooldown, threshold |-> DefaultThreshold]

\* a record_success that leaves open_until as it is
record_success_keepopen(br) ==
    [br EXCEPT !.failure_count = 0, !.last_failure_ts = 0]

record_success(br) ==
    [br EXCEPT !.failure_count = 0, !.last_failure_ts = 0, !.open_until = 0]

\* "cool or self.cooldown_seconds": a missing or zero cool takes the default
CoolOrDefault(br, cool) == IF Truthy(cool) THEN cool[1] ELSE br.cooldown_seconds

\* a record_failure that opens the breaker on every failure
record_failure_eager(br, cool, t) ==
    [br EXCEPT !.failure_count = @ + 1, !.last_failure_ts = t,
               !.open_until = t + CoolOrDefault(br, cool)]

record_failure(br, cool, t) ==
    LET fc == br.failure_count + 1
        b1 == [br EXCEPT !.failure_count = fc, !.last_failure_ts = t]
    IN  IF fc >= br.threshold
        THEN [b1 EXCEPT !.open_until = t + CoolOrDefault(br, cool)]
        ELSE b1

is_open(br, t) == t < br.open_until

half_open_probe_allowed(br, t) ==
    ~is_open(br, t) /\ br.failure_count >= br.threshold

\* ------------------------------------------------------------------ APIKey
APIKey(vendor, weight, bucket) ==
    [vendor |-> vendor, weight |-> weight, dead |-> FALSE,
     breaker |-> CircuitBreaker, bucket |-> bucket,
     min_cooldown |-> DefaultMinCooldown]

\* a healthy() that does not look at the dead flag
healthy_nodead(key, t) == ~is_open(key.breaker, t)

healthy(key, t) == ~key.dead /\ ~is_open(key.breaker, t)

\* ----------------------------------------------------------------- KeyPool
Vendors == {"openai", "gemini", "bigmodel"}
\* acquire_key(vendor=None)
NoVendor == ""

KeyIds(ks) == 1..Len(ks)

\* _eligible_keys without its test of k.dead
eligible_keys_nodead(ks, t) ==
    SelectSeq([i \in 1..Len(ks) |-> i], LAMBDA i: ~is_open(ks[i].breaker, t))

\* the positions of the keys _eligible_keys returns, in list order
eligible_keys(ks, t) ==
    SelectSeq([i \in 1..Len(ks) |-> i],
              LAMBDA i: ~ks[i].dead /\ ~is_open(ks[i].breaker, t))

\* cands without the vendor filter
Candidates_anyvendor(ks, t, vendor) == eligible_keys(ks, t)

\* cands: the eligible keys of the vendor asked for
Candidates(ks, t, vendor) ==
    SelectSeq(eligible_keys(ks, t),
              LAMBDA i: vendor = NoVendor \/ ks[i].vendor = vendor)

\* [k] * max(0, k.weight)
Repeat(k, n) == [i \in 1..n |-> k]

\* an expansion that takes every candidate once, whatever its weight
Expanded_unweighted(ks, cands) == cands

RECURSIVE Expanded(_, _)
Expanded(ks, cands) ==
    IF cands = <<>> THEN <<>>
    ELSE Repeat(Head(cands), ks[Head(cands)].weight) \o Expanded(ks, Tail(cands))

\* a rotation whose cursor stays where it is
weighted_round_robin_stuck(ks, cands, cursor) ==
    LET expanded == Expanded(ks, cands)
    IN  IF expanded = <<>>
        THEN [choice |-> None, cursor |-> cursor]
        ELSE [choice |-> expanded[(cursor % Len(expanded)) + 1],
              cursor |-> cursor]

weighted_round_robin(ks, cands, cursor) ==
    LET expanded == Expanded(ks, cands)
    IN  IF expanded = <<>>
        THEN [choice |-> None, cursor |-> cursor]
        ELSE [choice |-> expanded[(cursor % Len(expanded)) + 1],
              cursor |-> cursor + 1]

\* the for loop of acquire_key with n iterations left; the result names the
\* returned key, how it was found and the pool state the loop leaves
RECURSIVE AcquireLoop(_, _, _, _, _, _, _)
AcquireLoop(ks, cands, cursor, n, best, best_wait, t) ==
    LET out(path) == [keys |-> ks, cursor |-> cursor, k |-> best, path |-> path]
        pick == weighted_round_robin(ks, cands, cursor)
    IN  IF n = 0 THEN out(IF best = None THEN "none" ELSE "fallback")
        ELSE IF pick.choice = None
        THEN out(IF best = None THEN "none" ELSE "fallback")
        ELSE LET k   == pick.choice
                 r   == try_consume(ks[k].bucket, TokenScale, t)
                 ks2 == [ks EXCEPT ![k].bucket = r.bucket]
                 wait == time_to_avail(r.bucket, TokenScale)
             IN  IF r.ok
                 THEN [keys |-> ks2, cursor |-> pick.cursor, k |-> k,
                       path |-> "consume"]
                 ELSE IF WaitLess(wait, best_wait)
                 THEN AcquireLoop(ks2, cands, pick.cursor, n - 1, k, wait, t)
                 ELSE AcquireLoop(ks2, cands, pick.cursor, n - 1, best, best_wait, t)

AcquireKey(ks, cursor, vendor, t) ==
    LET cands == Candidates(ks, t, vendor)
    IN  IF cands = <<>>
        THEN [keys |-> ks, cursor |-> cursor, k |-> None, path |-> "none"]
        ELSE AcquireLoop(ks, cands, cursor, Len(cands), None, Wait(1, 0), t)

\* a report_success that also clears the dead flag
ReportSuccessKey_revive(key) ==
    [key EXCEPT !.breaker = record_success(@), !.dead = FALSE]

ReportSuccessKey(key) == [key EXCEPT !.breaker = record_success(@)]

\* the values random.uniform draws, by the ends of its range
RateCooldowns == {8, 20}
ServerCooldowns == {10, 60}
Kinds == {"auth", "rate", "server", "network", "other"}

\* a report_failure that ignores retry_after and always draws the cooldown
FailureCool_drawn(key, kind, retry_after, rnd) ==
    IF kind \in {"rate", "server", "network"} THEN Some(rnd)
    ELSE Some(key.min_cooldown)

\* the cool argument report_failure passes to record_failure; rnd is the draw
FailureCool(key, kind, retry_after, rnd) ==
    IF kind = "rate" THEN (IF Truthy(retry_after) THEN retry_after ELSE Some(rnd))
    ELSE IF kind \in {"server", "network"} THEN Some(rnd)
    ELSE Some(key.min_cooldown)

RandomDraws(kind) ==
    IF kind = "rate" THEN RateCooldowns
    ELSE IF kind \in {"server", "network"} THEN ServerCooldowns
    ELSE {0}

\* a report_failure whose auth branch also counts a failure in the breaker
ReportFailureKey_authcounts(key, kind, retry_after, rnd, t) ==
    IF kind = "auth"
    THEN [key EXCEPT !.dead = TRUE,
                     !.breaker = record_failure(@, Some(key.min_cooldown), t)]
    ELSE [key EXCEPT !.breaker =
              record_failure(@, FailureCool(key, kind, retry_after, rnd), t)]

ReportFailureKey(key, kind, retry_after, rnd, t) ==
    IF kind = "auth" THEN [key EXCEPT !.dead = TRUE]
    ELSE [key EXCEPT !.breaker =
              record_failure(@, FailureCool(key, kind, retry_after, rnd), t)]

have_live_key(ks, t) == \E i \in KeyIds(ks): healthy(ks[i], t)

\* ------------------------------------------------------------------- state
VARIABLES
    keys,        \* KeyPool._keys: the list of APIKey records
    rr_cursor,   \* KeyPool._rr_cursor
    lock,        \* KeyPool._lock: the caller holding it, or None
    now,         \* time.time()
    pc,          \* where each caller stands
    req,         \* the arguments of each caller's pool call
    ret,         \* what each caller's last acquire_key returned, how, for which
                 \* vendor and when; n counts the caller's acquire_key calls
    ops,         \* pool calls (chat calls) each caller has started
    chat,        \* the locals of each caller's chat call
    auth_failed, \* keys for which report_failure(k, 'auth') has run
    trip,        \* per key: when its breaker tripped and the open_until set then
    hist         \* per caller: the record a test client keeps of its calls

vars == <<keys, rr_cursor, lock, now, pc, req, ret, ops, chat, auth_failed, trip, hist>>

NoReq == [vendor |-> NoVendor, k |-> None, kind |-> "", retry_after |-> Nothing]
NoRet == [k |-> None, path |-> "", vendor |-> NoVendor, n |-> 0, t |-> 0]

\* a vendor's answer to one dispatch: "ok", "status" (an HTTP error status,
\* with its Retry-After header), "transport", "bad_body" (a 200 whose body
\* lacks the expected fields), "sdk_error" (an exception of the OpenAI SDK),
\* "NameError"; NoResp before there is one
RetryAfterHeader(present, numeric, value) ==
    [present |-> present, numeric |-> numeric, value |-> value]
NoHeader == RetryAfterHeader(FALSE, FALSE, 0)
Resp(type, status, header) == [type |-> type, status |-> status, header |-> header]
NoResp == Resp("", 0, NoHeader)

\* the locals of chat(): model, vendor, max_retries, attempt, k, last_err (the
\* exception caught last, named by the attempt that raised it, 0 for None); i
\* is the attempt counter of _call_openai, wake the end of the current sleep.
\* resp and reported record the current attempt: the vendor's answer and the
\* outcome reports made to the pool.  outcome is how the call ended; acquires
\* and dispatches count the acquire_key calls and the vendor calls it made,
\* and last_failed is the attempt of the latest vendor call that raised.
NoChat ==
    [model |-> "", vendor |-> NoVendor, max_retries |-> 0, attempt |-> 0,
     k |-> None, last_err |-> 0, i |-> 0, wake |-> 0,
     resp |-> NoResp, reported |-> <<>>, outcome |-> "",
     acquires |-> 0, dispatches |-> 0, last_failed |-> 0]

\* ---------------------------------------------------------- the pool lock
LockWaiting == {"acquire_key", "report_success", "report_failure"}
BodyOf(w) ==
    IF w = "acquire_key" THEN "in_acquire"
    ELSE IF w = "report_success" THEN "in_success" ELSE "in_failure"
InBody(p) == pc[p] \in {"in_acquire", "in_success", "in_failure"}

\* a lock that lets every caller in
LockFree_ignored(l) == TRUE

\* asyncio.Lock.acquire proceeds only when nobody holds the lock
LockFree(l) == l = None

\* "async with self._lock": the caller enters the body holding the lock
Lock(p) ==
    /\ pc[p] \in LockWaiting
    /\ LockFree(lock)
    /\ lock' = p
    /\ pc' = [pc EXCEPT ![p] = BodyOf(pc[p])]
    /\ UNCHANGED <<keys, rr_cursor, now, req, ret, ops, chat, auth_failed, trip, hist>>

\* ------------------------------------------- the bodies of the pool calls
\* What each method does between taking and releasing the lock; pc, req, ops,
\* chat and hist are left to the caller's continuation.
\* an acquire_key that returns without releasing the lock
acquire_key_keeplock(p, vendor) ==
    /\ LET r == AcquireKey(keys, rr_cursor, vendor, now)
       IN  /\ keys' = r.keys
           /\ rr_cursor' = r.cursor
           /\ ret' = [ret EXCEPT ![p] = [k |-> r.k, path |-> r.path, vendor |-> vendor,
                                       n |-> @.n + 1, t |-> now]]
    /\ lock' = lock
    /\ UNCHANGED <<now, auth_failed, trip>>

acquire_key(p, vendor) ==
    /\ LET r == AcquireKey(keys, rr_cursor, vendor, now)
       IN  /\ keys' = r.keys
           /\ rr_cursor' = r.cursor
           /\ ret' = [ret EXCEPT ![p] = [k |-> r.k, path |-> r.path, vendor |-> vendor,
                                       n |-> @.n + 1, t |-> now]]
    /\ lock' = None
    /\ UNCHANGED <<now, auth_failed, trip>>

report_success(k) ==
    /\ keys' = [keys EXCEPT ![k] = ReportSuccessKey(@)]
    /\ trip' = [trip EXCEPT ![k] = Nothing]
    /\ lock' = None
    /\ UNCHANGED <<rr_cursor, now, ret, auth_failed>>

report_failure(k, kind, retry_after) ==
    /\ \E rnd \in RandomDraws(kind):
          LET nk == ReportFailureKey(keys[k], kind, retry_after, rnd, now)
          IN  /\ keys' = [keys EXCEPT ![k] = nk]
              /\ auth_failed' = IF kind = "auth"
                                 THEN auth_failed \cup {k} ELSE auth_failed
              /\ trip' = IF /\ kind # "auth"
                            /\ nk.breaker.failure_count = nk.breaker.threshold
                         THEN [trip EXCEPT ![k] =
                                  Some([at |-> now, until |-> nk.breaker.open_until])]
                         ELSE trip
    /\ lock' = None
    /\ UNCHANGED <<rr_cursor, now, ret>>

\* ------------------------------------------------------------------ clock
Tick ==
    /\ now < MaxTime
    /\ now' = now + 1
    /\ UNCHANGED <<keys, rr_cursor, lock, pc, req, ret, ops, chat, auth_failed, trip, hist>>

\* A vendor takes its time to answer: time passes while a caller awaits a
\* response (within the first MaxLatency seconds).
ResponseLatency ==
    /\ \E p \in Callers: pc[p] = "awaiting"
    /\ now < MaxLatency
    /\ now' = now + 1
    /\ UNCHANGED <<keys, rr_cursor, lock, pc, req, ret, ops, chat, auth_failed, trip, hist>>

\* With every caller that can run asleep, the event loop waits for the
\* earliest timer: time passes until the first sleeper is due.
Sleeping(p) == pc[p] \in {"sleep", "backoff"} /\ chat[p].wake > now

SleepUntilDue ==
    /\ \E p \in Callers: Sleeping(p)
    /\ \A p \in Callers: pc[p] \in {"idle", "off", "done", "awaiting"} \/ Sleeping(p)
    /\ \E p \in Callers:
          /\ Sleeping(p)
          /\ \A q \in Callers: Sleeping(q) => chat[p].wake <= chat[q].wake
          /\ now' = chat[p].wake
    /\ UNCHANGED <<keys, rr_cursor, lock, pc, req, ret, ops, chat, auth_failed, trip, hist>>

\* --------------------------------------- callers of the pool's own methods
\* A caller that uses the pool directly, one whole call at a time: it takes
\* the free lock, runs the body and releases the lock.
Driver == CHOOSE p \in Callers : \A q \in Callers : p <= q

\* retry_after values a caller may pass: none, zero, a positive number and a
\* negative one (chat passes whatever float() reads from the header)
RetryAfters == {Nothing, Some(0), Some(2), Some(0 - 1)}

PoolAcquire(p) ==
    /\ pc[p] = "idle" /\ ops[p] < MaxPoolOps /\ LockFree(lock)
    /\ \E v \in Vendors \cup {NoVendor}: acquire_key(p, v)
    /\ ops' = [ops EXCEPT ![p] = @ + 1]
    /\ UNCHANGED <<pc, req, chat, hist>>

PoolReportSuccess(p) ==
    /\ pc[p] = "idle" /\ ops[p] < MaxPoolOps /\ LockFree(lock)
    /\ \E k \in KeyIds(keys): report_success(k)
    /\ ops' = [ops EXCEPT ![p] = @ + 1]
    /\ UNCHANGED <<pc, req, chat, hist>>

PoolReportFailure(p) ==
    /\ pc[p] = "idle" /\ ops[p] < MaxPoolOps /\ LockFree(lock)
    /\ \E k \in KeyIds(keys), kind \in Kinds:
          \E ra \in (IF kind = "rate" THEN RetryAfters ELSE {Nothing}):
             report_failure(k, kind, ra)
    /\ ops' = [ops EXCEPT ![p] = @ + 1]
    /\ UNCHANGED <<pc, req, chat, hist>>

\* a pool as a test or a configuration builds it: two openai keys of weights
\* 2 and 1 and a gemini key, with different buckets
PoolKeys ==
    << APIKey("openai", 2, TokenBucket(1, 0, TokenScale, 0)),
       APIKey("openai", 1, TokenBucket(1, 1, 0, 0)),
       APIKey("gemini", 1, TokenBucket(MaxCap, TokenScale, TokenScale, 0)) >>

InitCommon ==
    /\ rr_cursor = 0
    /\ lock = None
    /\ now = 0
    /\ pc = [p \in Callers |-> "idle"]
    /\ req = [p \in Callers |-> NoReq]
    /\ ret = [p \in Callers |-> NoRet]
    /\ ops = [p \in Callers |-> 0]
    /\ chat = [p \in Callers |-> NoChat]
    /\ auth_failed = {}
    /\ hist = [p \in Callers |-> <<>>]

InitPool ==
    /\ keys = PoolKeys
    /\ trip = [k \in KeyIds(PoolKeys) |-> Nothing]
    /\ InitCommon

NextPool ==
    \/ Tick
    \/ PoolAcquire(Driver)
    \/ PoolReportSuccess(Driver)
    \/ PoolReportFailure(Driver)

SpecPool == InitPool /\ [][NextPool]_vars

\* --------------------------------------------------- ProviderAdapter.chat
VENDOR_BY_MODEL ==
    [m \in {"gpt-5-chat-2025-08-07", "gpt-5", "gpt-4o-mini", "gpt-4o",
            "gpt-3.5-turbo", "gemini-1.5-pro", "gemini-1.5-flash", "glm-4.5"} |->
        IF m \in {"gemini-1.5-pro", "gemini-1.5-flash"} THEN "gemini"
        ELSE IF m = "glm-4.5" THEN "bigmodel"
        ELSE "openai"]

\* a lookup that falls back to a vendor for a model the table lacks
VendorOf_default(model) ==
    IF model \in DOMAIN VENDOR_BY_MODEL THEN VENDOR_BY_MODEL[model] ELSE "openai"

\* VENDOR_BY_MODEL.get(model): None for a model the table lacks
VendorOf(model) ==
    IF model \in DOMAIN VENDOR_BY_MODEL THEN VENDOR_BY_MODEL[model] ELSE NoVendor

\* the models callers ask for: one per vendor and one the table lacks
ChatModels == {"gpt-4o", "gemini-1.5-pro", "glm-4.5", "no-such-model"}
MaxRetriesArgs == {1, 2}

\* float(e.response.headers['retry-after']), None when absent or not a number
ParseRetryAfter(h) == IF h.present /\ h.numeric THEN Some(h.value) ELSE Nothing

\* the kind chat reports for an HTTPStatusError
KindOfStatus(status) ==
    IF status \in {401, 403} THEN "auth"
    ELSE IF status = 429 THEN "rate"
    ELSE IF 500 <= status /\ status < 600 THEN "server"
    ELSE "other"

\* the head of the while loop: the next attempt, or the final raise
LoopHead(c) ==
    IF c.attempt < c.max_retries
    THEN [pc |-> "acquire_key",
          chat |-> [c EXCEPT !.attempt = @ + 1, !.k = None, !.resp = NoResp,
                             !.reported = <<>>]]
    ELSE [pc |-> "idle", chat |-> [c EXCEPT !.outcome = "RuntimeError"]]

\* chat(messages, model, max_retries) up to the first acquire_key call
ChatStart(p, model, max_retries) ==
    LET vendor == VendorOf(model)
        c == [NoChat EXCEPT !.model = model, !.vendor = vendor,
                            !.max_retries = max_retries]
    IN  IF vendor = NoVendor
        THEN /\ chat' = [chat EXCEPT ![p] = [c EXCEPT !.outcome = "ValueError"]]
             /\ pc' = pc
             /\ req' = req
        ELSE /\ chat' = [chat EXCEPT ![p] = LoopHead(c).chat]
             /\ pc' = [pc EXCEPT ![p] = LoopHead(c).pc]
             /\ req' = [req EXCEPT ![p] = [NoReq EXCEPT !.vendor = vendor]]

ChatCall(p) ==
    /\ pc[p] = "idle" /\ ops[p] < MaxCalls
    /\ \E model \in ChatModels, max_retries \in MaxRetriesArgs:
          ChatStart(p, model, max_retries)
    /\ ops' = [ops EXCEPT ![p] = @ + 1]
    /\ UNCHANGED <<keys, rr_cursor, lock, now, ret, auth_failed, trip, hist>>

\* an acquire_key step after which an attempt without a key is not counted
ChatAcquire_uncounted(p) ==
    /\ pc[p] = "in_acquire"
    /\ acquire_key(p, req[p].vendor)
    /\ LET k == AcquireKey(keys, rr_cursor, req[p].vendor, now).k
       IN  /\ chat' = [chat EXCEPT ![p].k = k, ![p].i = 0,
                                   ![p].wake = IF k = None THEN now + 3 ELSE @,
                                   ![p].attempt = IF k = None THEN @ - 1 ELSE @,
                                   ![p].acquires = @ + 1]
           /\ pc' = [pc EXCEPT ![p] = IF k = None THEN "sleep" ELSE "dispatch"]
    /\ UNCHANGED <<req, ops, hist>>

\* k = await self.pool.acquire_key(vendor); without a key, sleep(3)
ChatAcquire(p) ==
    /\ pc[p] = "in_acquire"
    /\ acquire_key(p, req[p].vendor)
    /\ LET k == AcquireKey(keys, rr_cursor, req[p].vendor, now).k
       IN  /\ chat' = [chat EXCEPT ![p].k = k, ![p].i = 0,
                                   ![p].wake = IF k = None THEN now + 3 ELSE @,
                                   ![p].acquires = @ + 1]
           /\ pc' = [pc EXCEPT ![p] = IF k = None THEN "sleep" ELSE "dispatch"]
    /\ UNCHANGED <<req, ops, hist>>

\* the end of asyncio.sleep(3) or asyncio.sleep(0.0), then "continue"
ChatWake(p) ==
    /\ pc[p] = "sleep"
    /\ now >= chat[p].wake
    /\ chat' = [chat EXCEPT ![p] = LoopHead(chat[p]).chat]
    /\ pc' = [pc EXCEPT ![p] = LoopHead(chat[p]).pc]
    /\ req' = [req EXCEPT ![p] = IF LoopHead(chat[p]).pc = "acquire_key"
                                  THEN [NoReq EXCEPT !.vendor = chat[p].vendor]
                                  ELSE @]
    /\ UNCHANGED <<keys, rr_cursor, lock, now, ret, ops, auth_failed, trip, hist>>

\* the text came back: await self.pool.report_success(k) is next
ToReportSuccess(p, c, resp) ==
    /\ chat' = [chat EXCEPT ![p] = [c EXCEPT !.resp = resp]]
    /\ pc' = [pc EXCEPT ![p] = "report_success"]
    /\ req' = [req EXCEPT ![p] = [NoReq EXCEPT !.k = chat[p].k]]

\* an except clause of chat caught e: await self.pool.report_failure(...) is next
ToReportFailure(p, c, resp, kind, retry_after) ==
    /\ chat' = [chat EXCEPT ![p] = [c EXCEPT !.resp = resp, !.last_failed = c.attempt]]
    /\ pc' = [pc EXCEPT ![p] = "report_failure"]
    /\ req' = [req EXCEPT ![p] = [NoReq EXCEPT !.k = chat[p].k, !.kind = kind,
                                               !.retry_after = retry_after]]

\* an exception no except clause of chat names leaves chat at once
\* (c is the caller's chat record as the vendor call leaves it)
Escapes(p, c, resp, err) ==
    /\ chat' = [chat EXCEPT ![p] = [c EXCEPT !.resp = resp, !.outcome = err,
                                            !.last_failed = c.attempt]]
    /\ pc' = [pc EXCEPT ![p] = "idle"]
    /\ req' = req

\* chat enters the vendor call of the attempt
Dispatched(c) == [c EXCEPT !.dispatches = @ + 1]

\* _call_openai: one client.chat.completions.create of the synchronous SDK,
\* the i-th of at most 3.  Every exception is caught: before the third the
\* call backs off 5 * i seconds, after the third it returns an error text.
OpenAIStatuses == {401, 429}
OpenAIAnswers ==
    {Resp("ok", 200, NoHeader)} \cup {Resp("sdk_error", st, NoHeader) : st \in OpenAIStatuses}

OpenAICreate(p, c, i) ==
    \E resp \in OpenAIAnswers:
        IF resp.type = "ok" \/ i >= 3
        THEN ToReportSuccess(p, c, resp)
        ELSE /\ chat' = [chat EXCEPT ![p] = [c EXCEPT !.i = i, !.wake = now + 5 * i]]
             /\ pc' = [pc EXCEPT ![p] = "backoff"]
             /\ req' = req

DispatchOpenAI(p) ==
    /\ pc[p] = "dispatch"
    /\ keys[chat[p].k].vendor = "openai"
    /\ OpenAICreate(p, Dispatched(chat[p]), 1)
    /\ UNCHANGED <<keys, rr_cursor, lock, now, ret, ops, auth_failed, trip, hist>>

OpenAIRetry(p) ==
    /\ pc[p] = "backoff"
    /\ now >= chat[p].wake
    /\ OpenAICreate(p, chat[p], chat[p].i + 1)
    /\ UNCHANGED <<keys, rr_cursor, lock, now, ret, ops, auth_failed, trip, hist>>

\* _call_gemini: the request is posted and the caller awaits the response
DispatchGemini(p) ==
    /\ pc[p] = "dispatch"
    /\ keys[chat[p].k].vendor = "gemini"
    /\ pc' = [pc EXCEPT ![p] = "awaiting"]
    /\ chat' = [chat EXCEPT ![p] = Dispatched(@)]
    /\ UNCHANGED <<keys, rr_cursor, lock, now, req, ret, ops, auth_failed, trip, hist>>

GeminiStatuses == {401, 429, 500, 404}
GeminiHeaders ==
    {NoHeader, RetryAfterHeader(TRUE, TRUE, 2), RetryAfterHeader(TRUE, FALSE, 0)}
GeminiAnswers ==
    {Resp("ok", 200, NoHeader), Resp("bad_body", 200, NoHeader),
     Resp("transport", 0, NoHeader)}
    \cup {Resp("status", st, NoHeader) : st \in GeminiStatuses}
    \cup {Resp("status", 429, h) : h \in GeminiHeaders}

\* the response arrives: raise_for_status, then the text is read out of the body
GeminiResponse(p) ==
    /\ pc[p] = "awaiting"
    /\ \E resp \in GeminiAnswers:
          IF resp.type = "ok" THEN ToReportSuccess(p, chat[p], resp)
          ELSE IF resp.type = "status"
          THEN ToReportFailure(p, chat[p], resp, KindOfStatus(resp.status),
                               IF KindOfStatus(resp.status) = "rate"
                               THEN ParseRetryAfter(resp.header) ELSE Nothing)
          ELSE IF resp.type = "transport"
          THEN ToReportFailure(p, chat[p], resp, "network", Nothing)
          ELSE Escapes(p, chat[p], resp, "KeyError")
    /\ UNCHANGED <<keys, rr_cursor, lock, now, ret, ops, auth_failed, trip, hist>>

\* _call_bigmodel_sdk: ZhipuAiClient is not defined (its import is commented
\* out), so the first line raises NameError
DispatchBigModel(p) ==
    /\ pc[p] = "dispatch"
    /\ keys[chat[p].k].vendor = "bigmodel"
    /\ Escapes(p, Dispatched(chat[p]), Resp("NameError", 0, NoHeader), "NameError")
    /\ UNCHANGED <<keys, rr_cursor, lock, now, ret, ops, auth_failed, trip, hist>>

\* a chat that reports the success and goes on with the loop
ChatReportSuccess_continue(p) ==
    /\ pc[p] = "in_success"
    /\ report_success(req[p].k)
    /\ chat' = [chat EXCEPT
                   ![p].reported = Append(@, [k |-> req[p].k, kind |-> "success",
                                             retry_after |-> Nothing]),
                   ![p].wake = now]
    /\ pc' = [pc EXCEPT ![p] = "sleep"]
    /\ UNCHANGED <<req, ops, hist>>

\* await self.pool.report_success(k); return text
ChatReportSuccess(p) ==
    /\ pc[p] = "in_success"
    /\ report_success(req[p].k)
    /\ chat' = [chat EXCEPT
                   ![p].reported = Append(@, [k |-> req[p].k, kind |-> "success",
                                             retry_after |-> Nothing]),
                   ![p].outcome = IF chat[p].resp.type = "ok"
                                  THEN "text" ELSE "error_text"]
    /\ pc' = [pc EXCEPT ![p] = "idle"]
    /\ UNCHANGED <<req, ops, hist>>

\* a handler that forgets to keep the exception it caught
ChatReportFailure_forgetful(p) ==
    /\ pc[p] = "in_failure"
    /\ report_failure(req[p].k, req[p].kind, req[p].retry_after)
    /\ chat' = [chat EXCEPT
                   ![p].reported = Append(@, [k |-> req[p].k, kind |-> req[p].kind,
                                             retry_after |-> req[p].retry_after]),
                   ![p].wake = now]
    /\ pc' = [pc EXCEPT ![p] = "sleep"]
    /\ UNCHANGED <<req, ops, hist>>

\* await self.pool.report_failure(k, kind, ...); last_err = e; sleep(0.0)
ChatReportFailure(p) ==
    /\ pc[p] = "in_failure"
    /\ report_failure(req[p].k, req[p].kind, req[p].retry_after)
    /\ chat' = [chat EXCEPT
                   ![p].reported = Append(@, [k |-> req[p].k, kind |-> req[p].kind,
                                             retry_after |-> req[p].retry_after]),
                   ![p].last_err = chat[p].attempt,
                   ![p].wake = now]
    /\ pc' = [pc EXCEPT ![p] = "sleep"]
    /\ UNCHANGED <<req, ops, hist>>

\* the pool of the chat callers: one key per vendor
ChatKeys ==
    << APIKey("openai", 3, TokenBucket(1, 0, TokenScale, 0)),
       APIKey("gemini", 1, TokenBucket(MaxCap, TokenScale, TokenScale, 0)),
       APIKey("bigmodel", 1, TokenBucket(1, 1, TokenScale, 0)) >>

Init ==
    /\ keys = ChatKeys
    /\ trip = [k \in KeyIds(ChatKeys) |-> Nothing]
    /\ InitCommon

Next ==
    \/ ResponseLatency
    \/ SleepUntilDue
    \/ \E p \in Callers:
          \/ ChatCall(p)
          \/ Lock(p)
          \/ ChatAcquire(p)
          \/ ChatWake(p)
          \/ DispatchOpenAI(p)
          \/ OpenAIRetry(p)
          \/ DispatchGemini(p)
          \/ GeminiResponse(p)
          \/ DispatchBigModel(p)
          \/ ChatReportSuccess(p)
          \/ ChatReportFailure(p)

Spec == Init /\ [][Next]_vars

\* The event loop runs every task that is ready, fires every timer that is due
\* and delivers every response that arrives: a chat call that can take a step
\* takes it, and a sleep that everyone waits for ends.  The body of
\* acquire_key has no await in it: a caller that has entered it (the step
\* ChatAcquire, enabled exactly when pc = "in_acquire") leaves it.
Running(p) ==
    \/ Lock(p)
    \/ ChatWake(p)
    \/ DispatchOpenAI(p)
    \/ OpenAIRetry(p)
    \/ DispatchGemini(p)
    \/ GeminiResponse(p)
    \/ DispatchBigModel(p)
    \/ ChatReportSuccess(p)
    \/ ChatReportFailure(p)

SpecFair ==
    /\ Spec
    /\ WF_vars(SleepUntilDue)
    /\ \A p \in Callers : WF_vars(Running(p))
    /\ \A p \in Callers : []<>(pc[p] # "in_acquire")

\* ------------------------------------- N concurrent acquire_key calls
\* One healthy credential of capacity C, refill rate 0 and a full stock; the
\* callers in a chosen set each call acquire_key once, all at the same time.
Active(p) == pc[p] # "off"

InitAcquire ==
    /\ \E c \in 1..MaxCap, w \in 1..2, v \in Vendors:
          keys = << APIKey(v, w, TokenBucket(c, 0, c * TokenScale, 0)) >>
    /\ trip = [k \in {1} |-> Nothing]
    /\ rr_cursor = 0
    /\ lock = None
    /\ now = 0
    /\ \E act \in (SUBSET Callers) \ {{}}:
          /\ pc = [p \in Callers |-> IF p \in act THEN "acquire_key" ELSE "off"]
          /\ ops = [p \in Callers |-> IF p \in act THEN 1 ELSE 0]
    /\ \E v \in {NoVendor, keys[1].vendor}:
          req = [p \in Callers |-> [NoReq EXCEPT !.vendor = v]]
    /\ ret = [p \in Callers |-> NoRet]
    /\ chat = [p \in Callers |-> NoChat]
    /\ auth_failed = {}
    /\ hist = [p \in Callers |-> <<>>]

AcquireReturn(p) ==
    /\ pc[p] = "in_acquire"
    /\ acquire_key(p, req[p].vendor)
    /\ pc' = [pc EXCEPT ![p] = "done"]
    /\ UNCHANGED <<req, ops, chat, hist>>

NextAcquire ==
    \/ Tick
    \/ \E p \in Callers:
          \/ Lock(p)
          \/ AcquireReturn(p)

SpecAcquire == InitAcquire /\ [][NextAcquire]_vars

\* ------------------------------------------------- a token bucket on its own
\* A bucket created with some capacity, refill rate and stock within the
\* capacity; a client calls try_consume(amount) and time_to_avail(amount) with
\* amounts > 0 as time passes, and keeps the last result in hist.
BucketRates == 0..(TokenScale + 1)
BucketAmounts == 1..(MaxCap * TokenScale + 1)

BucketResult(op, amount, ok, wait) ==
    [op |-> op, amount |-> amount, ok |-> ok, wait |-> wait]

InitBucket ==
    /\ \E c \in 0..MaxCap, r \in BucketRates, tk \in 0..(MaxCap * TokenScale) :
          /\ tk <= c * TokenScale
          /\ keys = << APIKey("openai", 1, TokenBucket(c, r, tk, 0)) >>
    /\ trip = [k \in {1} |-> Nothing]
    /\ InitCommon

BucketTryConsume(p) ==
    /\ pc[p] = "idle" /\ ops[p] < MaxPoolOps
    /\ \E amount \in BucketAmounts :
          LET r == try_consume(keys[1].bucket, amount, now)
          IN  /\ keys' = [keys EXCEPT ![1].bucket = r.bucket]
              /\ hist' = [hist EXCEPT ![p] =
                             << BucketResult("try_consume", amount, r.ok, Wait(0, 1)) >>]
    /\ ops' = [ops EXCEPT ![p] = @ + 1]
    /\ UNCHANGED <<rr_cursor, lock, now, pc, req, ret, chat, auth_failed, trip>>

BucketTimeToAvail(p) ==
    /\ pc[p] = "idle" /\ ops[p] < MaxPoolOps
    /\ \E amount \in BucketAmounts :
          hist' = [hist EXCEPT ![p] =
                      << BucketResult("time_to_avail", amount, FALSE,
                                      time_to_avail(keys[1].bucket, amount)) >>]
    /\ ops' = [ops EXCEPT ![p] = @ + 1]
    /\ UNCHANGED <<keys, rr_cursor, lock, now, pc, req, ret, chat, auth_failed, trip>>

NextBucket ==
    \/ Tick
    \/ BucketTryConsume(Driver)
    \/ BucketTimeToAvail(Driver)

SpecBucket == InitBucket /\ [][NextBucket]_vars

\* ------------------------------------- three rate failures on a credential
\* A client reports three 'rate' failures with retry_after = r > 0 for a
\* credential whose failure_count is 0, at times of its choosing (hist keeps
\* the time of each), makes no further report, and then calls acquire_key for
\* the credential's vendor.
TripRetryAfters == 1..3

TripStart(p) ==
    /\ pc[p] = "idle"
    /\ \E k \in KeyIds(keys), r \in TripRetryAfters :
          /\ keys[k].breaker.failure_count = 0
          /\ req' = [req EXCEPT ![p] = [vendor |-> keys[k].vendor, k |-> k,
                                        kind |-> "rate", retry_after |-> Some(r)]]
    /\ pc' = [pc EXCEPT ![p] = "failing"]
    /\ UNCHANGED <<keys, rr_cursor, lock, now, ret, ops, chat, auth_failed, trip, hist>>

TripFailure(p) ==
    /\ pc[p] = "failing" /\ LockFree(lock)
    /\ report_failure(req[p].k, req[p].kind, req[p].retry_after)
    /\ hist' = [hist EXCEPT ![p] = Append(@, [t |-> now])]
    /\ pc' = [pc EXCEPT ![p] = IF Len(hist[p]) = 2 THEN "tripped" ELSE "failing"]
    /\ ops' = [ops EXCEPT ![p] = @ + 1]
    /\ UNCHANGED <<req, chat>>

TripAcquire(p) ==
    /\ pc[p] = "tripped" /\ LockFree(lock)
    /\ acquire_key(p, req[p].vendor)
    /\ pc' = [pc EXCEPT ![p] = "done"]
    /\ ops' = [ops EXCEPT ![p] = @ + 1]
    /\ UNCHANGED <<req, chat, hist>>

NextTrip ==
    \/ Tick
    \/ TripStart(Driver)
    \/ TripFailure(Driver)
    \/ TripAcquire(Driver)

SpecTrip == InitPool /\ [][NextTrip]_vars

\* ------------------------------------------ report_success, once and twice
\* After any calls of acquire_key and report_failure, a client calls
\* report_success for a credential and then once more for the same one; hist
\* keeps what is_open() and failure_count were before each call.
SuccessCall(p) ==
    /\ pc[p] \in {"idle", "reset"} /\ LockFree(lock)
    /\ \E k \in KeyIds(keys) :
          /\ pc[p] = "reset" => k = req[p].k
          /\ report_success(k)
          /\ req' = [req EXCEPT ![p] = [NoReq EXCEPT !.k = k]]
          /\ hist' = [hist EXCEPT ![p] =
                         Append(@, [open |-> is_open(keys[k].breaker, now),
                                    failure_count |-> keys[k].breaker.failure_count])]
    /\ pc' = [pc EXCEPT ![p] = IF pc[p] = "idle" THEN "reset" ELSE "reset_again"]
    /\ UNCHANGED <<ops, chat>>

NextSuccess ==
    \/ Tick
    \/ PoolAcquire(Driver)
    \/ PoolReportFailure(Driver)
    \/ SuccessCall(Driver)

SpecSuccess == InitPool /\ [][NextSuccess]_vars

\* ----------------------------------- weighted rotation over two credentials
\* Two healthy credentials of one vendor, alike but for their weights 3 and 1,
\* in either order, with buckets that hold a token for every call made; a
\* client calls acquire_key again and again and keeps the keys it got in hist.
WrrKeys ==
    LET key(w, rate) ==
            APIKey("openai", w, TokenBucket(MaxAcquires, rate, MaxAcquires * TokenScale, 0))
    IN  {<<key(3, rate), key(1, rate)>> : rate \in {0, 1}}
        \cup {<<key(1, rate), key(3, rate)>> : rate \in {0, 1}}

InitWrr ==
    /\ keys \in WrrKeys
    /\ trip = [k \in 1..2 |-> Nothing]
    /\ InitCommon

WrrAcquire(p) ==
    /\ pc[p] = "idle" /\ Len(hist[p]) < MaxAcquires /\ LockFree(lock)
    /\ \E v \in {NoVendor, "openai"} :
          /\ acquire_key(p, v)
          /\ hist' = [hist EXCEPT ![p] =
                         Append(@, AcquireKey(keys, rr_cursor, v, now).k)]
    /\ ops' = [ops EXCEPT ![p] = @ + 1]
    /\ UNCHANGED <<pc, req, chat>>

NextWrr ==
    \/ Tick
    \/ WrrAcquire(Driver)

SpecWrr == InitWrr /\ [][NextWrr]_vars

\* ------------------------------------- chat calls on a one-credential pool
\* The pool holds one openai credential with capacity 1, refill rate 0 and one
\* token.  A client makes chat calls one after the other, each issued when
\* the one before has ended, and keeps in hist how each call ended.
ScenarioKeys == << APIKey("openai", 1, TokenBucket(1, 0, TokenScale, 0)) >>

InitScenario ==
    /\ keys = ScenarioKeys
    /\ trip = [k \in KeyIds(ScenarioKeys) |-> Nothing]
    /\ InitCommon

ScenarioCall(p) ==
    /\ pc[p] = "idle" /\ ops[p] < MaxScenarioCalls
    /\ \E model \in ChatModels, max_retries \in MaxRetriesArgs:
          ChatStart(p, model, max_retries)
    /\ hist' = [hist EXCEPT ![p] =
                   IF ops[p] = 0 THEN @
                   ELSE Append(@, [outcome |-> chat[p].outcome,
                                   dispatches |-> chat[p].dispatches,
                                   ended |-> now])]
    /\ ops' = [ops EXCEPT ![p] = @ + 1]
    /\ UNCHANGED <<keys, rr_cursor, lock, now, ret, auth_failed, trip>>

NextScenario ==
    \/ SleepUntilDue
    \/ ScenarioCall(Driver)
    \/ Lock(Driver)
    \/ ChatAcquire(Driver)
    \/ ChatWake(Driver)
    \/ DispatchOpenAI(Driver)
    \/ OpenAIRetry(Driver)
    \/ ChatReportSuccess(Driver)

SpecScenario == InitScenario /\ [][NextScenario]_vars

\* --------------------------------- chat calls on the one event loop thread
\* _call_openai calls client.chat.completions.create of the synchronous SDK
\* inside the coroutine: from the call to its return the event loop's only
\* thread is inside the SDK ("blocking"), and no other task runs, no timer
\* fires and no response is delivered.  _call_gemini awaits the httpx
\* response ("awaiting"), which leaves the event loop to the other tasks.
EventLoopFree == \A q \in Callers : pc[q] # "blocking"

InFlight(p) == pc[p] \in {"awaiting", "blocking"}

\* the pool of these callers: every credential has quota for two requests
OverlapKeys ==
    << APIKey("openai", 3, TokenBucket(MaxCap, 0, MaxCap * TokenScale, 0)),
       APIKey("gemini", 1, TokenBucket(MaxCap, 0, MaxCap * TokenScale, 0)),
       APIKey("bigmodel", 1, TokenBucket(MaxCap, 0, MaxCap * TokenScale, 0)) >>

InitOverlap ==
    /\ keys = OverlapKeys
    /\ trip = [k \in KeyIds(OverlapKeys) |-> Nothing]
    /\ InitCommon

\* client.chat.completions.create(...) is entered: the first time of a
\* _call_openai, or again after the backoff sleep
OpenAIEnter(p) ==
    /\ \/ pc[p] = "dispatch" /\ keys[chat[p].k].vendor = "openai"
       \/ pc[p] = "backoff" /\ now >= chat[p].wake
    /\ pc' = [pc EXCEPT ![p] = "blocking"]
    /\ chat' = [chat EXCEPT ![p] = IF pc[p] = "dispatch" THEN Dispatched(@) ELSE @]
    /\ UNCHANGED <<keys, rr_cursor, lock, now, req, ret, ops, auth_failed, trip, hist>>

\* client.chat.completions.create(...) returns or raises
OpenAIReturn(p) ==
    /\ pc[p] = "blocking"
    /\ OpenAICreate(p, chat[p], chat[p].i + 1)
    /\ UNCHANGED <<keys, rr_cursor, lock, now, ret, ops, auth_failed, trip, hist>>

\* a vendor takes its time to answer, whichever way the caller waits for it
OverlapLatency ==
    /\ \E p \in Callers: InFlight(p)
    /\ now < MaxLatency
    /\ now' = now + 1
    /\ UNCHANGED <<keys, rr_cursor, lock, pc, req, ret, ops, chat, auth_failed, trip, hist>>

\* a chat call that holds a credential enters its vendor call
StartDispatch(p) ==
    /\ EventLoopFree
    /\ \/ OpenAIEnter(p)
       \/ DispatchGemini(p)
       \/ DispatchBigModel(p)

NextOverlap ==
    \/ OverlapLatency
    \/ EventLoopFree /\ SleepUntilDue
    \/ \E p \in Callers:
          \/ StartDispatch(p)
          \/ OpenAIReturn(p)
          \/ EventLoopFree /\ ChatCall(p)
          \/ EventLoopFree /\ Lock(p)
          \/ EventLoopFree /\ ChatAcquire(p)
          \/ EventLoopFree /\ ChatWake(p)
          \/ EventLoopFree /\ GeminiResponse(p)
          \/ EventLoopFree /\ ChatReportSuccess(p)
          \/ EventLoopFree /\ ChatReportFailure(p)

SpecOverlap == InitOverlap /\ [][NextOverlap]_vars

\* ---------------------------------------------- have_live_key on any pool
\* Pools of no, one and two credentials; a client reports outcomes, lets time
\* pass, and asks have_live_key(), keeping the last answer in hist.
LiveKey(vendor) == APIKey(vendor, 1, TokenBucket(1, 1, TokenScale, 0))

LivePools == {<<>>, <<LiveKey("openai")>>, <<LiveKey("openai"), LiveKey("gemini")>>}

InitLive ==
    /\ keys \in LivePools
    /\ trip = [k \in KeyIds(keys) |-> Nothing]
    /\ InitCommon

\* have_live_key() takes no lock and changes nothing
LiveCall(p) ==
    /\ pc[p] = "idle"
    /\ hist' = [hist EXCEPT ![p] = <<[live |-> have_live_key(keys, now)]>>]
    /\ UNCHANGED <<keys, rr_cursor, lock, now, pc, req, ret, ops, chat, auth_failed, trip>>

NextLive ==
    \/ Tick
    \/ PoolReportSuccess(Driver)
    \/ PoolReportFailure(Driver)
    \/ LiveCall(Driver)

SpecLive == InitLive /\ [][NextLive]_vars

\* ------------------------------------------------ load_keypool_from_config
\* A configuration file is absent, or holds a JSON object: has_keys says that
\* it has a "keys" list (keys, of items with a vendor and optional weight, rpm
\* and capacity), llm_key that it has a top-level "llm_key"; default_rpm and
\* default_capacity are the optional members of "defaults".
DefaultRpm == 60
DefaultWeight == 1
LegacyWeight == 3
SecondsPerMinute == 60

ConfigItems ==
    [vendor : {"openai", "gemini"}, weight : {Nothing, Some(2)},
     rpm : {Nothing, Some(2 * SecondsPerMinute)}, capacity : {Nothing, Some(1)}]

ConfigKeyLists ==
    {<<>>} \cup {<<i>> : i \in ConfigItems}
           \cup {<<i, [i EXCEPT !.vendor = "gemini"]>> : i \in ConfigItems}

NoFile ==
    [exists |-> FALSE, has_keys |-> FALSE, keys |-> <<>>, llm_key |-> FALSE,
     default_rpm |-> Nothing, default_capacity |-> Nothing]

Configs ==
    {NoFile}
    \cup {[exists |-> TRUE, has_keys |-> TRUE, keys |-> ks, llm_key |-> l,
           default_rpm |-> r, default_capacity |-> c] :
              ks \in ConfigKeyLists, l \in BOOLEAN,
              r \in {Nothing, Some(SecondsPerMinute)}, c \in {Nothing, Some(2)}}
    \cup {[exists |-> TRUE, has_keys |-> FALSE, keys |-> <<>>, llm_key |-> l,
           default_rpm |-> r, default_capacity |-> c] :
              l \in BOOLEAN,
              r \in {Nothing, Some(SecondsPerMinute)}, c \in {Nothing, Some(2)}}

\* dict.get(name, default) on an optional member
GetOr(o, default) == IF o = Nothing THEN default ELSE o[1]

\* rpm / 60.0 tokens per second, in the units of the bucket
RateOfRpm(rpm) == (rpm * TokenScale) \div SecondsPerMinute

\* the APIKey built from one item of "keys"; tokens start at 0.0
ItemKey(item, default_rpm, t) ==
    LET rpm == GetOr(item.rpm, default_rpm)
    IN  APIKey(item.vendor, GetOr(item.weight, DefaultWeight),
               TokenBucket(GetOr(item.capacity, rpm), RateOfRpm(rpm), 0, t))

\* a legacy key that gets the weight of a plain item
LegacyKey_plain(cfg, t) ==
    LET default_rpm == GetOr(cfg.default_rpm, DefaultRpm)
    IN  APIKey("openai", DefaultWeight,
               TokenBucket(GetOr(cfg.default_capacity, default_rpm),
                           RateOfRpm(default_rpm), 0, t))

\* the APIKey built from a top-level "llm_key"
LegacyKey(cfg, t) ==
    LET default_rpm == GetOr(cfg.default_rpm, DefaultRpm)
    IN  APIKey("openai", LegacyWeight,
               TokenBucket(GetOr(cfg.default_capacity, default_rpm),
                           RateOfRpm(default_rpm), 0, t))

\* The value load_keypool_from_config returns at time t: type is the Python
\* type of the object, keys the credentials in it.
load_keypool_from_config(cfg, t) ==
    IF ~cfg.exists THEN [type |-> "list", keys |-> <<>>]
    ELSE LET default_rpm == GetOr(cfg.default_rpm, DefaultRpm)
             out == [i \in 1..Len(cfg.keys) |-> ItemKey(cfg.keys[i], default_rpm, t)]
         IN  IF out = <<>> /\ cfg.llm_key
             THEN [type |-> "KeyPool", keys |-> <<LegacyKey(cfg, t)>>]
             ELSE [type |-> "KeyPool", keys |-> out]

\* A client loads one configuration and then calls have_live_key() and
\* acquire_key() on what it got; hist keeps the configuration, the type of
\* the object and the result of every call.
InitLoad ==
    /\ keys = <<>>
    /\ trip = <<>>
    /\ InitCommon

LoadCall(p) ==
    /\ pc[p] = "idle" /\ hist[p] = <<>>
    /\ \E cfg \in Configs :
          LET pool == load_keypool_from_config(cfg, now)
          IN  /\ keys' = pool.keys
              /\ trip' = [k \in KeyIds(pool.keys) |-> Nothing]
              /\ hist' = [hist EXCEPT ![p] = <<[op |-> "load", cfg |-> cfg,
                                                type |-> pool.type]>>]
    /\ pc' = [pc EXCEPT ![p] = "loaded"]
    /\ UNCHANGED <<rr_cursor, lock, now, req, ret, ops, chat, auth_failed>>

\* key_pool.have_live_key(): a list has no such attribute
LoadedHaveLiveKey(p) ==
    /\ pc[p] = "loaded" /\ ops[p] < MaxLoadCalls
    /\ hist' = [hist EXCEPT ![p] =
                   Append(@, [op |-> "have_live_key",
                              result |-> IF hist[p][1].type = "KeyPool"
                                         THEN IF have_live_key(keys, now)
                                              THEN "True" ELSE "False"
                                         ELSE "AttributeError"])]
    /\ ops' = [ops EXCEPT ![p] = @ + 1]
    /\ UNCHANGED <<keys, rr_cursor, lock, now, pc, req, ret, chat, auth_failed, trip>>

\* await key_pool.acquire_key(vendor): a list has no such attribute
LoadedAcquire(p) ==
    /\ pc[p] = "loaded" /\ ops[p] < MaxLoadCalls
    /\ IF hist[p][1].type = "KeyPool"
       THEN /\ LockFree(lock)
            /\ \E v \in {"openai", NoVendor} : acquire_key(p, v)
            /\ hist' = [hist EXCEPT ![p] =
                           Append(@, [op |-> "acquire_key",
                                      result |-> IF ret'[p].k = None
                                                 THEN "None" ELSE "key"])]
       ELSE /\ hist' = [hist EXCEPT ![p] =
                           Append(@, [op |-> "acquire_key",
                                      result |-> "AttributeError"])]
            /\ UNCHANGED <<keys, rr_cursor, lock, now, ret, auth_failed, trip>>
    /\ ops' = [ops EXCEPT ![p] = @ + 1]
    /\ UNCHANGED <<pc, req, chat>>

NextLoad ==
    \/ Tick
    \/ LoadCall(Driver)
    \/ LoadedHaveLiveKey(Driver)
    \/ LoadedAcquire(Driver)

SpecLoad == InitLoad /\ [][NextLoad]_vars

\* -------------------------------------------- report_failure(k, 'auth')
\* The client of the pool also makes report_failure(k, 'auth') calls that it
\* keeps a note of: hist holds the credential of the last one and the number
\* of the call.
AuthCall(p) ==
    /\ pc[p] = "idle" /\ ops[p] < MaxPoolOps /\ LockFree(lock)
    /\ \E k \in KeyIds(keys):
          /\ report_failure(k, "auth", Nothing)
          /\ hist' = [hist EXCEPT ![p] = <<[k |-> k, n |-> ops[p] + 1]>>]
    /\ ops' = [ops EXCEPT ![p] = @ + 1]
    /\ UNCHANGED <<pc, req, chat>>

NextAuth ==
    \/ Tick
    \/ PoolAcquire(Driver)
    \/ PoolReportFailure(Driver)
    \/ AuthCall(Driver)

SpecAuth == InitPool /\ [][NextAuth]_vars

\* ------------------------------------------ report_failure, call by call
\* The client of the pool keeps a note of every report_failure call it makes:
\* hist holds the arguments of the last one and the number of the call.
FailureCall(p) ==
    /\ pc[p] = "idle" /\ ops[p] < MaxPoolOps /\ LockFree(lock)
    /\ \E k \in KeyIds(keys), kind \in Kinds:
          \E ra \in (IF kind = "rate" THEN RetryAfters ELSE {Nothing}):
             /\ report_failure(k, kind, ra)
             /\ hist' = [hist EXCEPT ![p] = <<[k |-> k, kind |-> kind,
                                               retry_after |-> ra,
                                               n |-> ops[p] + 1]>>]
    /\ ops' = [ops EXCEPT ![p] = @ + 1]
    /\ UNCHANGED <<pc, req, chat>>

NextFailure ==
    \/ Tick
    \/ PoolReportSuccess(Driver)
    \/ FailureCall(Driver)

SpecFailure == InitPool /\ [][NextFailure]_vars

\* ------------------------------------ a success that arrives for an open key
\* A request that acquired k earlier ends well after k's breaker has tripped:
\* the client reports the success while the breaker is open (hist keeps the
\* time and the open_until it found), and then calls acquire_key for k's
\* vendor at a time of its choosing.
LateSuccess(p) ==
    /\ pc[p] = "idle" /\ LockFree(lock)
    /\ \E k \in KeyIds(keys) :
          /\ is_open(keys[k].breaker, now)
          /\ report_success(k)
          /\ req' = [req EXCEPT ![p] = [NoReq EXCEPT !.vendor = keys[k].vendor, !.k = k]]
          /\ hist' = [hist EXCEPT ![p] = <<[t |-> now,
                                            until |-> keys[k].breaker.open_until]>>]
    /\ pc' = [pc EXCEPT ![p] = "reported"]
    /\ UNCHANGED <<ops, chat>>

LateAcquire(p) ==
    /\ pc[p] = "reported" /\ LockFree(lock)
    /\ acquire_key(p, req[p].vendor)
    /\ pc' = [pc EXCEPT ![p] = "done"]
    /\ UNCHANGED <<req, ops, chat, hist>>

NextLate ==
    \/ Tick
    \/ PoolAcquire(Driver)
    \/ PoolReportFailure(Driver)
    \/ LateSuccess(Driver)
    \/ LateAcquire(Driver)

SpecLate == InitPool /\ [][NextLate]_vars

\* ------------------------------------------- credentials of any weight
\* Pools whose credentials have weights below 1 as well: two openai keys and
\* a gemini key, every bucket with one token and a refill of one per second.
Weights == {0 - 1, 0, 2}

WeightKey(vendor, weight) ==
    APIKey(vendor, weight, TokenBucket(1, TokenScale, TokenScale, 0))

InitWeights ==
    /\ \E w1 \in Weights, w2 \in Weights :
          keys = << WeightKey("openai", w1), WeightKey("openai", w2),
                    WeightKey("gemini", 1) >>
    /\ trip = [k \in 1..3 |-> Nothing]
    /\ InitCommon

NextWeights ==
    \/ Tick
    \/ PoolAcquire(Driver)
    \/ AuthCall(Driver)

SpecWeights == InitWeights /\ [][NextWeights]_vars

\* ------------------------------------------------------------------ claims
CallsDone == {p \in Callers : pc[p] = "done"}
CallsConsumed == {p \in CallsDone : ret[p].k = 1 /\ ret[p].path = "consume"}
CallsNone == {p \in CallsDone : ret[p].k = None}

\* C1: with one healthy credential of capacity C, refill rate 0 and C tokens,
\* N concurrent acquire_key calls return the credential with a token consumed
\* in exactly min(N, C) calls and none in the others, and the stock never
\* drops below 0 (it is C minus the tokens handed out so far).
C1_NoDoubleSpend ==
    LET C == keys[1].bucket.capacity
        N == Cardinality({p \in Callers : Active(p)})
    IN  /\ keys[1].bucket.tokens >= 0
        /\ keys[1].bucket.tokens = (C - Cardinality(CallsConsumed)) * TokenScale
        /\ CallsConsumed \cup CallsNone = CallsDone
        /\ Cardinality(CallsConsumed) <= Min(N, C)
        /\ (Cardinality(CallsDone) = N =>
               /\ Cardinality(CallsConsumed) = Min(N, C)
               /\ Cardinality(CallsNone) = N - Min(N, C))

\* more calls than tokens: all have returned, some with the key, some with none
C1_Witness ==
    /\ \A p \in Callers : pc[p] = "done"
    /\ CallsConsumed # {}
    /\ CallsNone # {}
    /\ now > 0

\* C2: at most one caller at a time is inside the body of acquire_key,
\* report_success or report_failure, it holds the pool lock there, and the
\* cursor, the buckets, the breakers and the dead flags change only in a step
\* of the caller that holds the lock.
C2_MutualExclusion ==
    /\ [](\A p, q \in Callers :
             /\ (InBody(p) /\ InBody(q)) => p = q
             /\ InBody(p) => lock = p)
    /\ [][(keys' # keys \/ rr_cursor' # rr_cursor)
             => \E p \in Callers : InBody(p) /\ lock = p /\ ~InBody(p)']_vars

\* one caller is inside a body while another waits for the lock
C2_Witness ==
    \E p, q \in Callers :
        p # q /\ InBody(p) /\ lock = p /\ pc[q] \in LockWaiting

\* C3: acquire_key(vendor=X) returns none or a credential of vendor X, on the
\* consume path and on the fallback path.
C3_VendorIsolation ==
    \A p \in Callers :
        (ret[p].k # None /\ ret[p].vendor # NoVendor)
            => keys[ret[p].k].vendor = ret[p].vendor

\* after a call for a vendor came back through a consume (the cursor has
\* moved more than once), a call for that vendor returned a fallback, while
\* the pool also holds a healthy key of another vendor
C3_Witness ==
    \E p \in Callers :
        /\ ret[p].path = "fallback" /\ ret[p].vendor \in Vendors
        /\ ret[p].n >= 2
        /\ \E i \in KeyIds(keys) :
              keys[i].vendor = ret[p].vendor /\ keys[i].bucket.tokens = 0
        /\ \E i \in KeyIds(keys) :
              keys[i].vendor # ret[p].vendor /\ healthy(keys[i], now)

\* C4: the credential acquire_key returns is, when it is selected, neither
\* dead nor behind an open breaker, whether consumed or returned as fallback.
C4_ReturnsHealthy ==
    [][\A p \in Callers :
          (ret'[p].n # ret[p].n /\ ret'[p].k # None)
              => healthy(keys[ret'[p].k], now)]_vars

\* a call returned a key while another key it could have asked for was behind
\* a breaker that had tripped before the call and was still open
C4_Witness ==
    \E p \in Callers, i \in KeyIds(keys) :
        /\ ret[p].k # None /\ ret[p].k # i
        /\ ret[p].vendor \in {NoVendor, keys[i].vendor}
        /\ keys[i].breaker.failure_count >= keys[i].breaker.threshold
        /\ keys[i].breaker.last_failure_ts < ret[p].t
        /\ ret[p].t < keys[i].breaker.open_until

\* C5: once report_failure(k, 'auth') has run, k stays dead and unhealthy and
\* no acquire_key returns it, whatever calls and passage of time follow.
C5_DeadIsPermanent ==
    /\ [](\A k \in auth_failed : keys[k].dead /\ ~healthy(keys[k], now))
    /\ [][\A p \in Callers :
             ret'[p].n # ret[p].n => ret'[p].k \notin auth_failed]_vars

\* the only key of its vendor took an auth failure; later, with its breaker
\* closed, an acquire_key for that vendor came back empty
C5_Witness ==
    \E k \in auth_failed :
        /\ keys[k].breaker.failure_count = 0
        /\ \A i \in KeyIds(keys) : keys[i].vendor = keys[k].vendor => i = k
        /\ now > 0
        /\ \E p \in Callers : ret[p].vendor = keys[k].vendor /\ ret[p].k = None

\* C6: after the threshold-th consecutive failure the breaker is open at once,
\* whatever cooldown was passed, and it is open at every time earlier than the
\* open_until set by that failure, as long as no success is recorded.
C6_TripStaysOpen ==
    \A k \in KeyIds(keys) :
        (trip[k] # Nothing /\ (now = trip[k][1].at \/ now < trip[k][1].until))
            => is_open(keys[k].breaker, now)

\* C7: a record_failure call (the step that raises failure_count) never moves
\* open_until backwards.
C7_OpenUntilMonotone ==
    [][\A k \in KeyIds(keys) :
          keys'[k].breaker.failure_count > keys[k].breaker.failure_count
              => keys'[k].breaker.open_until >= keys[k].breaker.open_until]_vars

\* the current attempt of p's chat call is over / its vendor call failed
AttemptOver(p) == pc[p] \in {"sleep", "idle"} /\ chat[p].k # None
AttemptFailed(p) == chat[p].resp.type \notin {"", "ok"}

\* the report the adapter owes the pool for a failed vendor call
ExpectedKind(resp) ==
    IF resp.type \in {"status", "sdk_error"}
    THEN (IF resp.status \in {401, 403} THEN "auth"
          ELSE IF resp.status = 429 THEN "rate"
          ELSE IF resp.status >= 500 /\ resp.status < 600 THEN "server"
          ELSE "other")
    ELSE IF resp.type = "transport" THEN "network"
    ELSE "other"

ExpectedRetryAfter(resp) ==
    IF ExpectedKind(resp) = "rate" /\ resp.header.present /\ resp.header.numeric
    THEN Some(resp.header.value) ELSE Nothing

\* C8: when the vendor call of an attempt fails, chat reports exactly one
\* failure for the acquired credential, of the kind that fits the failure
\* (with a numeric Retry-After for a 429), and no success.
C8_FailureClassified ==
    \A p \in Callers :
        (AttemptOver(p) /\ AttemptFailed(p))
            => chat[p].reported =
                 << [k |-> chat[p].k, kind |-> ExpectedKind(chat[p].resp),
                     retry_after |-> ExpectedRetryAfter(chat[p].resp)] >>

\* C9: a chat call on a known model ends by returning the text of a
\* successful vendor response or by raising the retries-exhausted error after
\* max_retries attempts.
C9_TextOrExhausted ==
    \A p \in Callers :
        (pc[p] = "idle" /\ chat[p].outcome # ""
            /\ chat[p].model \in DOMAIN VENDOR_BY_MODEL)
            => \/ chat[p].outcome = "text" /\ chat[p].resp.type = "ok"
               \/ /\ chat[p].outcome = "RuntimeError"
                  /\ chat[p].attempt = chat[p].max_retries

\* C10: an attempt in which acquire_key returned a credential ends with
\* exactly one report_success or report_failure for that credential.
C10_OneReportPerAttempt ==
    \A p \in Callers :
        AttemptOver(p)
            => /\ Len(chat[p].reported) = 1
               /\ chat[p].reported[1].k = chat[p].k

\* C11: a chat call makes at most max_retries acquire_key calls and at most
\* max_retries vendor dispatches; an attempt that got no key counts as one of
\* them and is followed by a sleep of 3 seconds, so the retries-exhausted error
\* comes after exactly max_retries acquire_key calls; and with every dispatch
\* returning, a chat call that has started returns or raises.
C11_BoundedRetries ==
    /\ [](\A p \in Callers :
             /\ chat[p].acquires <= chat[p].max_retries
             /\ chat[p].dispatches <= chat[p].max_retries
             /\ chat[p].dispatches <= chat[p].acquires
             /\ (pc[p] = "sleep" /\ chat[p].k = None)
                    => chat[p].wake = ret[p].t + 3
             /\ chat[p].outcome = "RuntimeError"
                    => chat[p].acquires = chat[p].max_retries)
    /\ \A p \in Callers :
           (pc[p] # "idle") ~> (pc[p] = "idle" /\ chat[p].outcome # "")

\* a call with max_retries = 2 dispatched once, got no key in its second
\* attempt, slept and raised the retries-exhausted error
C11_Witness ==
    \E p \in Callers :
        /\ pc[p] = "idle" /\ chat[p].outcome = "RuntimeError"
        /\ chat[p].max_retries = 2
        /\ chat[p].acquires = 2 /\ chat[p].dispatches = 1
        /\ chat[p].k = None /\ now >= ret[p].t + 3

\* C12: once a dispatch has succeeded, the chat call reports one success for
\* the credential of that attempt and returns the text of that response, and
\* from the success on it makes no acquire_key call and no dispatch.
C12_FirstSuccessWins ==
    /\ [](\A p \in Callers :
             chat[p].resp.type = "ok"
                 => \/ /\ pc[p] \in {"report_success", "in_success"}
                       /\ chat[p].reported = <<>>
                       /\ req[p].k = chat[p].k
                    \/ /\ pc[p] = "idle"
                       /\ chat[p].outcome = "text"
                       /\ chat[p].reported =
                             << [k |-> chat[p].k, kind |-> "success",
                                 retry_after |-> Nothing] >>)
    /\ [][\A p \in Callers :
             (chat[p].resp.type = "ok" /\ ops'[p] = ops[p])
                 => /\ chat'[p].acquires = chat[p].acquires
                    /\ chat'[p].dispatches = chat[p].dispatches
                    /\ chat'[p].resp = chat[p].resp
                    /\ chat'[p].k = chat[p].k
                    /\ ret'[p] = ret[p]]_vars

\* a call returned the text of its second attempt, after one failed attempt
C12_Witness ==
    \E p \in Callers :
        /\ pc[p] = "idle" /\ chat[p].outcome = "text"
        /\ chat[p].attempt = 2 /\ chat[p].last_err = 1
        /\ chat[p].dispatches = 2
        /\ Len(chat[p].reported) = 1

\* C13: chat with a model the table lacks raises the unknown-model error at
\* once: no attempt, no acquire_key call, no dispatch, no report, and the step
\* leaves the cursor, the keys (buckets, breakers, dead flags), the lock and
\* every caller's position as they were.
C13_UnknownModel ==
    /\ [](\A p \in Callers :
             (chat[p].model # "" /\ chat[p].model \notin DOMAIN VENDOR_BY_MODEL)
                 => /\ pc[p] = "idle"
                    /\ chat[p].outcome = "ValueError"
                    /\ chat[p].attempt = 0
                    /\ chat[p].acquires = 0 /\ chat[p].dispatches = 0
                    /\ chat[p].reported = <<>>)
    /\ [][\A p \in Callers :
             (ops'[p] # ops[p] /\ chat'[p].model \notin DOMAIN VENDOR_BY_MODEL)
                 => /\ keys' = keys /\ rr_cursor' = rr_cursor /\ lock' = lock
                    /\ ret' = ret /\ pc' = pc /\ now' = now]_vars

\* a call for an unknown model was refused while another caller was inside a
\* pool method and a token of the pool had been spent
C13_Witness ==
    \E p, q \in Callers :
        /\ chat[p].outcome = "ValueError" /\ chat[p].model = "no-such-model"
        /\ InBody(q) /\ rr_cursor > 0

\* the keys the picks of an acquire_key call land on when none of them
\* consumes: one pick per candidate, from the cursor on
Picked(ks, cands, cursor) ==
    LET expanded == Expanded(ks, cands)
    IN  {expanded[((cursor + j) % Len(expanded)) + 1] : j \in 0..(Len(cands) - 1)}

CanConsume(ks, k, t) == try_consume(ks[k].bucket, TokenScale, t).ok

\* the wait the call computes for a picked key whose consume failed
WaitOf(ks, k, t) ==
    time_to_avail(try_consume(ks[k].bucket, TokenScale, t).bucket, TokenScale)

\* an acquire_key call of p returns in this step, with candidates and without
\* a pick that consumes
FallbackCall(p) ==
    /\ ret'[p].n # ret[p].n
    /\ Candidates(keys, now, ret'[p].vendor) # <<>>
    /\ \A k \in Picked(keys, Candidates(keys, now, ret'[p].vendor), rr_cursor) :
           ~CanConsume(keys, k, now)

\* C14 as stated: when there are candidates and no pick consumes a token, the
\* call returns a picked credential whose time_to_avail is the smallest among
\* those picked, reduces no bucket's stock, and the returned credential holds
\* less than one token.
C14_FallbackSmallestWait ==
    [][\A p \in Callers :
          FallbackCall(p)
              => LET picked == Picked(keys, Candidates(keys, now, ret'[p].vendor),
                                      rr_cursor)
                 IN  /\ ret'[p].k \in picked
                     /\ \A j \in picked :
                            ~WaitLess(WaitOf(keys, j, now), WaitOf(keys, ret'[p].k, now))
                     /\ \A i \in KeyIds(keys) :
                            keys'[i].bucket.tokens >= keys[i].bucket.tokens
                     /\ keys'[ret'[p].k].bucket.tokens < TokenScale]_vars

\* C14, amended: the call returns a picked credential of smallest wait when
\* some picked bucket has a finite wait (a positive refill rate), and none when
\* every picked bucket has refill rate 0; in both cases no stock is reduced,
\* and a returned credential holds less than one token.
C14_FallbackFiniteWait ==
    [][\A p \in Callers :
          FallbackCall(p)
              => LET picked == Picked(keys, Candidates(keys, now, ret'[p].vendor),
                                      rr_cursor)
                 IN  /\ \A i \in KeyIds(keys) :
                            keys'[i].bucket.tokens >= keys[i].bucket.tokens
                     /\ IF \E j \in picked : WaitOf(keys, j, now).den # 0
                        THEN /\ ret'[p].k \in picked
                             /\ ret'[p].path = "fallback"
                             /\ WaitOf(keys, ret'[p].k, now).den # 0
                             /\ \A j \in picked :
                                    ~WaitLess(WaitOf(keys, j, now),
                                              WaitOf(keys, ret'[p].k, now))
                             /\ keys'[ret'[p].k].bucket.tokens < TokenScale
                        ELSE ret'[p].k = None]_vars

\* a call picked an empty bucket that never refills and an empty one that
\* does, and returned the second as fallback
C14_Witness ==
    \E p \in Callers, i \in KeyIds(keys) :
        /\ ret[p].path = "fallback" /\ ret[p].k # i
        /\ keys[i].vendor = keys[ret[p].k].vendor
        /\ keys[i].bucket.refill_rate = 0 /\ keys[i].bucket.tokens = 0
        /\ keys[i].bucket.last_refill_ts = ret[p].t
        /\ keys[ret[p].k].bucket.last_refill_ts = ret[p].t
        /\ keys[ret[p].k].bucket.refill_rate > 0
        /\ healthy(keys[i], ret[p].t)

\* C15: a bucket created with 0 <= tokens <= capacity keeps
\* 0 <= tokens <= capacity through every sequence of try_consume(amount > 0)
\* and time_to_avail calls made as the clock advances.
C15_StockWithinCapacity ==
    /\ keys[1].bucket.tokens >= 0
    /\ keys[1].bucket.tokens <= keys[1].bucket.capacity * TokenScale

\* time went by, the refill of a later try_consume filled the bucket to its
\* capacity (more would have come in), and the call took the whole stock
C15_Witness ==
    /\ hist[Driver] # <<>>
    /\ hist[Driver][1].op = "try_consume" /\ hist[Driver][1].ok
    /\ hist[Driver][1].amount = keys[1].bucket.capacity * TokenScale
    /\ keys[1].bucket.tokens = 0
    /\ keys[1].bucket.last_refill_ts * keys[1].bucket.refill_rate
           > keys[1].bucket.capacity * TokenScale
    /\ ops[Driver] >= 3

\* C16: after three consecutive report_failure(k, 'rate', retry_after = r)
\* calls, r > 0, on a credential with threshold 3 and failure_count 0 before,
\* and with no further report, k's breaker is open at every time before
\* (time of the third failure + r) and closed from then on; while it is open
\* acquire_key does not return k, and once it is closed k is eligible again.
C16_RateTripWindow ==
    \A p \in Callers :
        pc[p] \in {"tripped", "done"}
            => LET k == req[p].k
                   closes == hist[p][3].t + req[p].retry_after[1]
               IN  /\ keys[k].breaker.threshold = 3
                   /\ keys[k].breaker.failure_count = 3
                   /\ is_open(keys[k].breaker, now) <=> now < closes
                   /\ ~healthy(keys[k], hist[p][3].t)
                   /\ now >= closes
                         => \E i \in 1..Len(Candidates(keys, now, keys[k].vendor)) :
                               Candidates(keys, now, keys[k].vendor)[i] = k
                   /\ (pc[p] = "done" /\ ret[p].t < closes) => ret[p].k # k

\* the three failures came at different times, the window went by, and an
\* acquire_key call made after it returned the credential
C16_Witness ==
    \E p \in Callers :
        /\ pc[p] = "done"
        /\ hist[p][1].t < hist[p][3].t
        /\ ret[p].k = req[p].k
        /\ ret[p].t = hist[p][3].t + req[p].retry_after[1]
        /\ req[p].retry_after[1] > 1

\* C17: whatever state the breaker is in, report_success(k) leaves k's breaker
\* with failure_count = 0 and open_until cleared, so it is not open; it
\* changes nothing else (k's tokens and dead flag, the breaker's settings, the
\* cursor, the other credentials); and a second report_success(k) right after
\* the first changes nothing at all.
C17_SuccessResets ==
    [][\A p \in Callers :
          (pc'[p] # pc[p] /\ pc'[p] \in {"reset", "reset_again"})
              => LET k == req'[p].k
                 IN  /\ keys'[k].breaker.failure_count = 0
                     /\ keys'[k].breaker.open_until = 0
                     /\ ~is_open(keys'[k].breaker, now')
                     /\ keys'[k].breaker.threshold = keys[k].breaker.threshold
                     /\ keys'[k].breaker.cooldown_seconds
                            = keys[k].breaker.cooldown_seconds
                     /\ keys' = [keys EXCEPT ![k].breaker = keys'[k].breaker]
                     /\ rr_cursor' = rr_cursor
                     /\ pc'[p] = "reset_again" => keys' = keys]_vars

\* report_success was called twice for a credential whose breaker was open
\* after more failures than the threshold, while another credential was dead
C17_Witness ==
    \E p \in Callers, i \in KeyIds(keys) :
        /\ pc[p] = "reset_again"
        /\ hist[p][1].open /\ hist[p][1].failure_count >= 3
        /\ ~hist[p][2].open /\ hist[p][2].failure_count = 0
        /\ i # req[p].k /\ keys[i].dead

\* how often key k is among the entries from..to of the sequence h
Count(h, from, to, k) == Cardinality({i \in from..to : h[i] = k})

\* C18: with two healthy credentials of one vendor, of weights 3 and 1, that
\* always have a token, every 4 consecutive acquire_key calls return the
\* weight-3 credential 3 times and the weight-1 credential once; so after 4n
\* calls the counts are 3n and n.
C18_ThreeToOne ==
    \A p \in Callers :
        LET h == hist[p]
            heavy == CHOOSE k \in KeyIds(keys) : keys[k].weight = 3
            light == CHOOSE k \in KeyIds(keys) : keys[k].weight = 1
        IN  /\ \A i \in 1..(Len(h) - 3) :
                   /\ Count(h, i, i + 3, heavy) = 3
                   /\ Count(h, i, i + 3, light) = 1
            /\ Len(h) % 4 = 0
                  => /\ Count(h, 1, Len(h), heavy) = 3 * (Len(h) \div 4)
                     /\ Count(h, 1, Len(h), light) = Len(h) \div 4

\* eight calls were made as time went by, six returned the weight-3
\* credential and two the other, the first of them the weight-1 credential
C18_Witness ==
    \E p \in Callers :
        /\ Len(hist[p]) = 8 /\ now > 0
        /\ keys[hist[p][1]].weight = 1
        /\ Cardinality({i \in 1..8 : keys[hist[p][i]].weight = 3}) = 6
        /\ rr_cursor = 8

\* C19: on a pool of one openai credential with capacity 1, refill rate 0 and
\* one token, a first chat call that gets a successful answer returns its
\* text and leaves the bucket empty; a chat call with max_retries = 1 issued
\* right after a call that returned text gets no credential, makes no
\* dispatch and raises the retries-exhausted error.
C19_ScenarioA ==
    \A p \in Callers :
        (pc[p] = "idle" /\ chat[p].outcome # "" /\ chat[p].vendor = "openai")
            => /\ (hist[p] = <<>> /\ chat[p].resp.type = "ok")
                     => /\ chat[p].outcome = "text"
                        /\ chat[p].dispatches = 1
                        /\ keys[1].bucket.tokens = 0
               /\ (/\ \E i \in 1..Len(hist[p]) : hist[p][i].outcome = "text"
                   /\ chat[p].max_retries = 1)
                     => /\ chat[p].outcome = "RuntimeError"
                        /\ chat[p].acquires = 1 /\ chat[p].dispatches = 0
                        /\ chat[p].k = None /\ ret[p].path = "none"
                        /\ chat[p].last_err = 0
                        /\ keys[1].bucket.tokens = 0

\* the first call returned text; the second, with max_retries = 1 and issued
\* at once, slept its 3 seconds and raised the retries-exhausted error
C19_Witness ==
    \E p \in Callers :
        /\ pc[p] = "idle" /\ chat[p].outcome = "RuntimeError"
        /\ chat[p].max_retries = 1 /\ chat[p].vendor = "openai"
        /\ Len(hist[p]) = 1
        /\ hist[p][1].outcome = "text" /\ hist[p][1].dispatches = 1
        /\ ret[p].t = hist[p][1].ended
        /\ now = hist[p][1].ended + 3

\* C20: the pool lock is never held while a caller dispatches to a vendor,
\* awaits its answer, backs off or sleeps for want of a credential; it is
\* held only by a caller inside the body of acquire_key, report_success or
\* report_failure, and it is free when each of these returns.
C20_LockOnlyInPoolCalls ==
    /\ [](\A p \in Callers :
             /\ pc[p] \in {"dispatch", "awaiting", "backoff", "sleep"} => lock # p
             /\ lock = p => InBody(p))
    /\ [][\A p \in Callers : (InBody(p) /\ pc'[p] # pc[p]) => lock' = None]_vars

\* while one caller awaits a vendor's answer, another is inside acquire_key
\* holding the lock
C20_Witness ==
    \E p, q \in Callers :
        /\ pc[p] = "awaiting"
        /\ pc[q] = "in_acquire" /\ lock = q

\* C21: while a chat call waits for the response of its vendor dispatch, the
\* other chat calls are able to run: one that holds a credential can start
\* its own dispatch, whichever vendors the two calls use.
C21_DispatchesOverlap ==
    \A p, q \in Callers :
        (p # q /\ InFlight(p) /\ pc[q] = "dispatch") => ENABLED StartDispatch(q)

\* the chat calls that hold credential k: acquire_key has returned it to them
\* and they have not yet reported the outcome of the attempt
InFlightOn(k) ==
    {p \in Callers :
        /\ chat[p].k = k
        /\ pc[p] \in {"dispatch", "awaiting", "backoff", "report_success",
                      "in_success", "report_failure", "in_failure"}}

SomeHealthy ==
    \E k \in KeyIds(keys) : ~keys[k].dead /\ now >= keys[k].breaker.open_until

\* C23: in every reachable state have_live_key() is true exactly when some
\* credential is not dead and has now >= open_until; it is false for an empty
\* pool and for a pool whose credentials are all dead or open; every call
\* returns that value and changes nothing of the pool.
C23_LiveIffHealthy ==
    /\ [](/\ have_live_key(keys, now) <=> SomeHealthy
          /\ keys = <<>> => ~have_live_key(keys, now)
          /\ (\A k \in KeyIds(keys) : keys[k].dead \/ now < keys[k].breaker.open_until)
                 => ~have_live_key(keys, now))
    /\ [][\A p \in Callers :
             hist'[p] # hist[p]
                 => /\ hist'[p][1].live = SomeHealthy
                    /\ keys' = keys /\ rr_cursor' = rr_cursor /\ lock' = lock]_vars

\* a pool of two credentials, one dead and one with an open breaker, has
\* answered have_live_key() with false
C23_Witness ==
    /\ Len(keys) = 2
    /\ keys[1].dead /\ ~keys[2].dead /\ now < keys[2].breaker.open_until
    /\ hist[Driver] = <<[live |-> FALSE]>>

\* the calls a client made on the object it loaded
CallsOn(p) == {hist[p][i] : i \in 2..Len(hist[p])}

\* C24: load_keypool_from_config with a path that does not exist returns a
\* pool object (the kind returned when the file exists) with no credentials,
\* on which have_live_key() returns false and acquire_key returns none.
C24_MissingFileEmptyPool ==
    \A p \in Callers :
        (hist[p] # <<>> /\ ~hist[p][1].cfg.exists)
            => /\ hist[p][1].type = "KeyPool"
               /\ keys = <<>>
               /\ \A c \in CallsOn(p) :
                      /\ c.op = "have_live_key" => c.result = "False"
                      /\ c.op = "acquire_key" => c.result = "None"

\* C25: loading a configuration with a top-level llm_key and no keys list
\* yields a pool with exactly one credential, of vendor openai and weight 3,
\* not dead and with a closed breaker, and have_live_key() is true on it.
C25_LegacyConfig ==
    \A p \in Callers :
        (/\ hist[p] # <<>>
         /\ hist[p][1].cfg.exists /\ hist[p][1].cfg.llm_key /\ ~hist[p][1].cfg.has_keys)
            => /\ hist[p][1].type = "KeyPool"
               /\ Len(keys) = 1
               /\ keys[1].vendor = "openai" /\ keys[1].weight = 3
               /\ ~keys[1].dead
               /\ keys[1].breaker.failure_count = 0 /\ keys[1].breaker.open_until = 0
               /\ ~is_open(keys[1].breaker, now)
               /\ \A c \in CallsOn(p) : c.op = "have_live_key" => c.result = "True"

\* a legacy configuration was loaded and have_live_key() answered on the pool
C25_Witness ==
    \E p \in Callers :
        /\ Len(hist[p]) >= 2
        /\ hist[p][1].cfg.exists /\ hist[p][1].cfg.llm_key /\ ~hist[p][1].cfg.has_keys
        /\ hist[p][2] = [op |-> "have_live_key", result |-> "True"]
        /\ Len(keys) = 1 /\ keys[1].weight = 3

\* C26: report_failure(k, 'auth') sets k.dead to true and changes nothing
\* else: k's failure_count, open_until and tokens, the rotation cursor and
\* every other credential are as before, and the lock is free again.
C26_AuthOnlySetsDead ==
    [][\A p \in Callers :
          hist'[p] # hist[p]
              => LET k == hist'[p][1].k
                 IN  /\ keys'[k].dead
                     /\ keys'[k].breaker = keys[k].breaker
                     /\ keys'[k].bucket = keys[k].bucket
                     /\ keys' = [keys EXCEPT ![k].dead = TRUE]
                     /\ rr_cursor' = rr_cursor
                     /\ lock' = None /\ now' = now]_vars

\* an auth failure was reported for a credential that had failures counted,
\* after the cursor had moved and another credential had tripped
C26_Witness ==
    \E p \in Callers :
        /\ hist[p] # <<>>
        /\ hist[p][1].n = ops[p]
        /\ keys[hist[p][1].k].dead
        /\ keys[hist[p][1].k].breaker.failure_count > 0
        /\ rr_cursor > 0
        /\ \E j \in KeyIds(keys) : j # hist[p][1].k /\ keys[j].breaker.failure_count > 0

\* C27: when chat raises the retries-exhausted error, the error carries the
\* failure of the chronologically last failed dispatch of the call, also when
\* later attempts found no credential; it carries no failure only when no
\* attempt of the call dispatched.
C27_LastFailureCarried ==
    \A p \in Callers :
        chat[p].outcome = "RuntimeError"
            => /\ chat[p].last_err = chat[p].last_failed
               /\ chat[p].last_err = 0 <=> chat[p].dispatches = 0

\* the first attempt of a call dispatched and failed, the second found no
\* credential, and the error raised after it carries the first attempt's failure
C27_Witness ==
    \E p \in Callers :
        /\ chat[p].outcome = "RuntimeError"
        /\ chat[p].max_retries = 2 /\ chat[p].attempt = 2
        /\ chat[p].dispatches = 1 /\ chat[p].last_failed = 1
        /\ chat[p].k = None /\ ret[p].k = None
        /\ chat[p].last_err = 1

\* the candidates of a call for vendor v that hold a token after the refill
CandidatesWithToken(v) ==
    {k \in KeyIds(keys) :
        /\ \E i \in 1..Len(Candidates(keys, now, v)) : Candidates(keys, now, v)[i] = k
        /\ CanConsume(keys, k, now)}

\* C28: whenever an eligible credential of the requested vendor holds at least
\* one token after refill, acquire_key returns a credential from which it
\* consumed a token; it neither falls back to a rate-limited credential nor
\* returns none, whatever the weights and the cursor.
C28_SpareQuotaIsFound ==
    [][\A p \in Callers :
          (ret'[p].n # ret[p].n /\ CandidatesWithToken(ret'[p].vendor) # {})
              => /\ ret'[p].path = "consume"
                 /\ ret'[p].k \in CandidatesWithToken(ret'[p].vendor)]_vars

\* the client's call of this step is a call of op on the bucket
BucketCall(op) ==
    /\ ops'[Driver] # ops[Driver]
    /\ hist'[Driver][1].op = op

\* min(capacity, tokens + elapsed x refill_rate) at the time of the call
ToppedUp ==
    LET b == keys[1].bucket
        sum == b.tokens + (now - b.last_refill_ts) * b.refill_rate
    IN  IF sum >= b.capacity * TokenScale THEN b.capacity * TokenScale ELSE sum

\* C29: try_consume(amount) returns true and lowers the refilled stock by
\* exactly amount when that stock is >= amount; otherwise it returns false and
\* changes nothing except topping tokens up to
\* min(capacity, tokens + elapsed x refill_rate) and stamping last_refill_ts.
C29_TryConsume ==
    [][BucketCall("try_consume")
          => LET amount == hist'[Driver][1].amount
                 b == keys[1].bucket
             IN  /\ hist'[Driver][1].ok <=> ToppedUp >= amount
                 /\ keys'[1].bucket.tokens =
                        IF ToppedUp >= amount THEN ToppedUp - amount ELSE ToppedUp
                 /\ keys'[1].bucket.last_refill_ts = now
                 /\ keys' = [keys EXCEPT ![1].bucket.tokens = keys'[1].bucket.tokens,
                                         ![1].bucket.last_refill_ts = now]
                 /\ now' = now /\ rr_cursor' = rr_cursor]_vars

\* a try_consume for more than the stock returned false after time had gone
\* by: the bucket was topped up and stamped, and nothing was taken
C29_Witness ==
    /\ hist[Driver] # <<>>
    /\ hist[Driver][1].op = "try_consume" /\ ~hist[Driver][1].ok
    /\ keys[1].bucket.tokens > 0
    /\ keys[1].bucket.tokens < keys[1].bucket.capacity * TokenScale
    /\ keys[1].bucket.tokens < hist[Driver][1].amount
    /\ keys[1].bucket.last_refill_ts = now /\ now > 0
    /\ ops[Driver] >= 2

\* C30: time_to_avail(amount) observes the stock topped up by the time
\* elapsed since the last refill: it returns 0 exactly when a
\* try_consume(amount) made at the same instant would succeed, and otherwise
\* the time after which it would succeed (infinite when refill_rate is 0).
C30_TimeToAvailObserves ==
    [][BucketCall("time_to_avail")
          => LET amount == hist'[Driver][1].amount
                 wait == hist'[Driver][1].wait
                 b == keys[1].bucket
             IN  /\ wait = Wait(0, 1) <=> try_consume(b, amount, now).ok
                 /\ ~try_consume(b, amount, now).ok
                       => IF b.refill_rate = 0 THEN wait.den = 0
                          ELSE /\ wait.den # 0
                               /\ wait.num * b.refill_rate
                                      = (amount - ToppedUp) * wait.den]_vars

\* the open window a tripping report_failure(k, kind, retry_after) is to set
WindowFits(kind, retry_after, min_cooldown, w) ==
    IF retry_after # Nothing THEN w = retry_after[1]
    ELSE IF kind = "rate" THEN 8 <= w /\ w <= 20
    ELSE IF kind \in {"server", "network"} THEN 10 <= w /\ w <= 60
    ELSE w = min_cooldown

\* C31: for every non-auth report_failure, failure_count rises by exactly 1
\* and dead is unchanged, and whenever the call trips the breaker the open
\* window open_until - now equals retry_after when one is given (any value,
\* including 0), and otherwise lies in [8, 20] for 'rate', in [10, 60] for
\* 'server' and 'network', and equals min_cooldown for any other kind.
C31_FailureWindow ==
    [][\A p \in Callers :
          (hist'[p] # hist[p] /\ hist'[p][1].kind # "auth")
              => LET c == hist'[p][1]
                     br == keys[c.k].breaker
                     br2 == keys'[c.k].breaker
                 IN  /\ br2.failure_count = br.failure_count + 1
                     /\ keys'[c.k].dead = keys[c.k].dead
                     /\ br2.failure_count >= br2.threshold
                           => WindowFits(c.kind, c.retry_after, keys[c.k].min_cooldown,
                                         br2.open_until - now)]_vars

\* the positions _eligible_keys returns, as a set
Eligible == {eligible_keys(keys, now)[i] : i \in 1..Len(eligible_keys(keys, now))}

\* C32: starting from failure_count 0, fewer than threshold consecutive
\* failures of kind rate, server, network or other never open the breaker:
\* open_until is unchanged and the credential stays eligible for acquire_key,
\* even when a failure carried an explicit retry_after.
C32_BelowThresholdStaysClosed ==
    /\ [](\A k \in KeyIds(keys) :
             keys[k].breaker.failure_count < keys[k].breaker.threshold
                 => /\ keys[k].breaker.open_until = 0
                    /\ ~is_open(keys[k].breaker, now)
                    /\ ~keys[k].dead => k \in Eligible)
    /\ [][\A p \in Callers :
             (/\ hist'[p] # hist[p]
              /\ keys'[hist'[p][1].k].breaker.failure_count
                     < keys'[hist'[p][1].k].breaker.threshold)
                 => keys'[hist'[p][1].k].breaker.open_until
                       = keys[hist'[p][1].k].breaker.open_until]_vars

\* a credential has one failure less than the threshold, the last of them a
\* rate failure with retry_after 2 a moment ago, and it is eligible
C32_Witness ==
    \E p \in Callers :
        /\ hist[p] # <<>>
        /\ hist[p][1].kind = "rate" /\ hist[p][1].retry_after = Some(2)
        /\ hist[p][1].n = ops[p]
        /\ keys[hist[p][1].k].breaker.failure_count
               = keys[hist[p][1].k].breaker.threshold - 1
        /\ now < keys[hist[p][1].k].breaker.last_failure_ts + 2
        /\ hist[p][1].k \in Eligible

\* C33: after a tripped breaker's cooldown has expired with no success
\* reported, failure_count is still >= threshold (half_open_probe_allowed()
\* is true), acquire_key treats the credential as an ordinary eligible pick,
\* and a single further failure re-opens the breaker at once.
C33_HalfOpenReopens ==
    /\ [](\A k \in KeyIds(keys) :
             (trip[k] # Nothing /\ ~is_open(keys[k].breaker, now))
                 => /\ keys[k].breaker.failure_count >= keys[k].breaker.threshold
                    /\ half_open_probe_allowed(keys[k].breaker, now)
                    /\ ~keys[k].dead => k \in Eligible)
    /\ [][\A p \in Callers :
             (/\ hist'[p] # hist[p]
              /\ hist'[p][1].kind # "auth"
              /\ trip[hist'[p][1].k] # Nothing
              /\ ~is_open(keys[hist'[p][1].k].breaker, now))
                 => is_open(keys'[hist'[p][1].k].breaker, now)]_vars

\* C34: each acquire_key call debits at most one token in total: exactly 1
\* from the returned credential when it returns through a successful consume,
\* and 0 from every credential when it returns a fallback or none; the bucket
\* of a credential that the call did not return is never debited (it is left
\* alone, or topped up and stamped by a failed try_consume).
C34_OneDebitPerCall ==
    [][\A p \in Callers :
          ret'[p].n # ret[p].n
              => \A k \in KeyIds(keys) :
                    LET b == keys[k].bucket
                        b2 == keys'[k].bucket
                        stock == IF b.tokens + (now - b.last_refill_ts) * b.refill_rate
                                       >= b.capacity * TokenScale
                                 THEN b.capacity * TokenScale
                                 ELSE b.tokens + (now - b.last_refill_ts) * b.refill_rate
                    IN  IF ret'[p].path = "consume" /\ ret'[p].k = k
                        THEN b2.tokens = stock - TokenScale
                        ELSE /\ b2 = b \/ (b2.tokens = stock /\ b2.last_refill_ts = now)
                             /\ b2.tokens >= b.tokens]_vars

\* a call tried one credential without success, topping it up on the way, and
\* took its token from the next one
C34_Witness ==
    \E p \in Callers, k \in KeyIds(keys) :
        /\ ret[p].path = "consume" /\ ret[p].k # k /\ ret[p].t = now
        /\ keys[k].vendor = keys[ret[p].k].vendor
        /\ keys[k].bucket.last_refill_ts = now /\ now > 0
        /\ keys[k].bucket.tokens > 0 /\ keys[k].bucket.tokens < TokenScale
        /\ keys[ret[p].k].bucket.last_refill_ts = now

\* C35: a report_success for credential k that arrives while k's breaker is
\* open resets failure_count to 0 and clears open_until, so that k is eligible
\* for acquire_key again before its cooldown window has elapsed (unless it is
\* dead), and acquire_key returns only eligible credentials then too.
C35_LateSuccessReopens ==
    \A p \in Callers :
        pc[p] \in {"reported", "done"}
            => LET k == req[p].k
               IN  /\ hist[p][1].t < hist[p][1].until
                   /\ keys[k].breaker.failure_count = 0
                   /\ keys[k].breaker.open_until = 0
                   /\ ~is_open(keys[k].breaker, now)
                   /\ ~keys[k].dead => k \in Eligible
                   /\ (pc[p] = "done" /\ ret[p].k # None)
                         => ~keys[ret[p].k].dead /\ keys[ret[p].k].vendor = req[p].vendor
                   /\ (pc[p] = "done" /\ ret[p].k = None) => ret[p].path = "none"

\* the success arrived while k was open, and acquire_key returned k before
\* the window the breaker had been opened for was over
C35_Witness ==
    \E p \in Callers :
        /\ pc[p] = "done"
        /\ ret[p].k = req[p].k
        /\ ret[p].t < hist[p][1].until
        /\ hist[p][1].t < ret[p].t

\* the candidates of a call for vendor v, as a set
CandidateSet(v) ==
    {Candidates(keys, now, v)[i] : i \in 1..Len(Candidates(keys, now, v))}

\* C36: a credential whose weight is <= 0 is never returned by acquire_key,
\* and acquire_key returns none for a vendor whose eligible credentials all
\* have weight <= 0, although have_live_key() reports such credentials live.
C36_NoWeightNoPick ==
    /\ []((\E k \in KeyIds(keys) : ~keys[k].dead /\ keys[k].weight <= 0)
              => have_live_key(keys, now))
    /\ [][\A p \in Callers :
             ret'[p].n # ret[p].n
                 => /\ ret'[p].k # None => keys[ret'[p].k].weight > 0
                    /\ (\A k \in CandidateSet(ret'[p].vendor) : keys[k].weight <= 0)
                          => ret'[p].k = None /\ ret'[p].path = "none"]_vars

\* acquire_key returned none for openai although both openai credentials are
\* healthy and hold a token: their weights are 0 and -1
C36_Witness ==
    \E p \in Callers :
        /\ ret[p].n > 0 /\ ret[p].k = None /\ ret[p].vendor = "openai" /\ ret[p].t = now
        /\ keys[1].weight = 0 /\ keys[2].weight = 0 - 1
        /\ healthy(keys[1], now) /\ healthy(keys[2], now)
        /\ keys[1].bucket.tokens >= TokenScale /\ keys[2].bucket.tokens >= TokenScale
        /\ have_live_key(keys, now)

\* the credential the j-th pick of a call lands on (j from 0), the cursor
\* being at c when the call starts
PickAt(cands, c, j) ==
    Expanded(keys, cands)[((c + j) % Len(Expanded(keys, cands))) + 1]

\* C37: every acquire_key call ends after at most |eligible| picks, each pick
\* advances the rotation cursor by exactly 1 (a call that returns through a
\* consume at its n-th pick leaves the cursor n further, a call that returns a
\* fallback or none after all its picks leaves it |candidates| further), the
\* cursor never decreases in any step, and a call that finds the eligible set
\* empty leaves the cursor and every bucket unchanged.
C37_PicksAndCursor ==
    /\ [][rr_cursor' >= rr_cursor]_vars
    /\ [][\A p \in Callers :
             ret'[p].n # ret[p].n
                 => LET cands == Candidates(keys, now, ret'[p].vendor)
                        adv == rr_cursor' - rr_cursor
                    IN  /\ 0 <= adv /\ adv <= Len(cands)
                        /\ adv <= Len(eligible_keys(keys, now))
                        /\ cands = <<>>
                              => /\ adv = 0 /\ keys' = keys
                                 /\ ret'[p].k = None
                        /\ cands # <<>>
                              => IF ret'[p].path = "consume"
                                 THEN /\ adv >= 1
                                      /\ ret'[p].k = PickAt(cands, rr_cursor, adv - 1)
                                      /\ \A j \in 0..(adv - 2) :
                                             ~CanConsume(keys, PickAt(cands, rr_cursor, j), now)
                                 ELSE adv = Len(cands)]_vars

\* the second call of a client made two picks, neither of which could
\* consume, and returned the fallback: the cursor is at 3
C37_Witness ==
    \E p \in Callers :
        /\ ret[p].n = 2 /\ ret[p].path = "fallback" /\ ret[p].t = now
        /\ rr_cursor = 3
        /\ Len(Candidates(keys, now, ret[p].vendor)) = 2

\* p has started a pool call that has not returned: it waits for the lock or
\* is inside the body
InPoolCall(p) == pc[p] \in LockWaiting \/ InBody(p)

\* C38: no caller waits forever for the pool lock: under fair scheduling every
\* started acquire_key, report_success and report_failure call eventually
\* completes and leaves the lock released by its caller, whatever the other
\* callers are doing.
C38_PoolCallsComplete ==
    \A p \in Callers : InPoolCall(p) ~> (~InPoolCall(p) /\ lock # p)

\* a caller waits to report a success while another caller, whose earlier
\* attempt failed, is inside acquire_key with the lock
C38_Witness ==
    \E p, q \in Callers :
        /\ pc[p] = "report_success"
        /\ lock = q /\ pc[q] = "in_acquire"
        /\ chat[q].attempt = 2

====
